---- MODULE Spec2Model ----
(***************************************************************************)
(* A model of the mattress recommendation system: the multi-strategy       *)
(* retrieval and fusion engine (src/src/rag_system.py), the catalog        *)
(* loader (src/src/data_loader.py) and the relevance gate                  *)
(* (src/src/ai_agent.py).                                                  *)
(*                                                                         *)
(* Numbers.  Python floats are modelled as exact fixed-point integers:     *)
(*   - a distance is in hundredths           (0.35  -> 35)                 *)
(*   - a pass weight is in tenths            (0.8   -> 8)                  *)
(*   - a weighted score is in thousandths    ((1-d)*w)                     *)
(*   - a final similarity_score is in 1/6000 (so that total/count with     *)
(*     count in 1..3 is exact)                                             *)
(*   - a price and a budget bound are in tenths of manwon (79.6 -> 796)    *)
(***************************************************************************)
EXTENDS Integers, Sequences, FiniteSets, TLC

VARIABLES
    \* ---- one search_mattresses call (rag_system.py:557-590)
    pc,              \* position inside the call
    n_results,       \* argument n_results
    budget_filter,   \* argument budget_filter: <<>> (None) or <<min, max>>
    all_results,     \* the dict all_results, as a sequence in insertion order
    pass_hits,       \* per strategy, the hits the vector store returned
    final_results,   \* the returned list
    \* ---- one preprocess_for_rag call (data_loader.py:313-420)
    mattresses,      \* self.mattresses, the loaded (normalized) catalog
    loader_pc,       \* "idle", "loop" or "done"
    idx,             \* 1 + the loop index i of enumerate(self.mattresses)
    existing_ids,    \* the set existing_ids
    rag_data,        \* the list rag_data
    rag_result,      \* the returned list
    lookup_id,       \* mattress_id of a get_mattress_by_id call after the run
    lookup_result,   \* what that call returned
    \* ---- a features list stored and read back (data_loader.py:356-370,
    \*      rag_system.py:675-680)
    rt_pc,           \* "idle", "input", "stored" or "restored"
    rt_features,     \* mattress['features']
    rt_text,         \* metadata['features_text']
    rt_restored,     \* the 'features' of the formatted result
    \* ---- the embedding manager (rag_system.py:206-342)
    gpt_client,      \* whether gpt_synonym_generator.client exists
    embedding_model, \* self.model with self.model_name, as loaded by __init__
    embedding_cache, \* self.embedding_cache: cache key -> vector
    embed_calls,     \* number of generate_embedding calls made so far
    last_call,       \* the last generate_embedding call and what it did
    first_result,    \* per (text, flag), the vector its first call returned
    \* ---- the vector store during a search (rag_system.py:450-464)
    store_ranking,   \* per queried vector, the collection's documents nearest first
    pass_info,       \* per strategy, the vector queried and whether the query returned
    store_queries,   \* the store queries of the search, in the order issued
    model_calls,     \* how often the search invoked the embedding model
    \* ---- SmartRelevanceChecker (ai_agent.py:43-149)
    relevance_client, \* the checker's self.client is set
    relevance_cache,  \* the checker's self.cache: cleaned query -> result
    relevance_calls, \* check_relevance calls made so far
    last_check,      \* the last check_relevance call and what it did
    \* ---- EnhancedMattressAIAgent.process_query (ai_agent.py:760-879)
    agent_pc,        \* where the process_query call stands
    agent_query,     \* user_query of the call
    agent_calls,     \* process_query calls made so far
    stages_invoked,  \* the pipeline stages invoked during the call
    agent_result,    \* what the call returned
    history,         \* ConversationManager.conversation_history
    \* ---- MattressDataLoader._normalize_mattress_prices (data_loader.py:189-246)
    raw_mattresses,        \* the records as loaded from the catalog file
    norm_pc,               \* where the normalisation stands
    norm_idx,              \* index of the next record to normalise
    normalized_mattresses, \* the list being built
    prices_converted,      \* per record, what _convert_price_to_manwon returned
    \* ---- EnhancedKoreanTextPreprocessor.extract_weighted_keywords
    \*      (rag_system.py:153-164)
    kw_pc,                 \* "ready" before the call, "done" after it
    kw_text,               \* the text given
    weighted_keywords,     \* the list returned
    \* ---- MattressDataLoader._sanitize_id and _generate_unique_id called on their own
    \*      (data_loader.py:48-124)
    id_pc,         \* "idle", "ready" or "done"
    id_raw,        \* raw_id given to _sanitize_id
    id_sanitized,  \* what _sanitize_id returned
    id_record,     \* mattress given to _generate_unique_id
    id_existing,   \* existing_ids given to _generate_unique_id
    id_unique,     \* final_id of _generate_unique_id, returned at the end
    id_counter,    \* counter of _generate_unique_id
    \* ---- GPTSynonymGenerator.generate_synonyms (rag_system.py:79-121) and
    \*      EnhancedKoreanTextPreprocessor.create_gpt_enhanced_text (rag_system.py:178-203)
    syn_client,     \* the generator's self.client is set
    synonym_cache,  \* self.synonym_cache: keyword -> list
    syn_calls,      \* generate_synonyms calls made so far
    last_synonyms,  \* the last generate_synonyms call and what it did
    has_generator,  \* the preprocessor's self.gpt_synonym_generator is set
    enh_pc,         \* "idle", "ready" or "done"
    enh_text,       \* text given to create_gpt_enhanced_text
    enh_lookups,    \* the generate_synonyms calls that call made, in order
    enhanced_text,  \* what create_gpt_enhanced_text returned
    \* ---- EnhancedMattressRAGSystem with its ChromaDBManager (rag_system.py:394-561) and
    \*      FewShotEnhancedEmbeddingManager.generate_embeddings_batch (rag_system.py:344-391)
    is_initialized,     \* self.is_initialized
    collection_handle,  \* chroma_manager.collection is set
    collection_rows,    \* the rows of the persistent collection, in the order added
    system_calls,       \* calls made on the system so far
    last_init,          \* the last initialize_with_data call and what it returned
    system_search,      \* the last search_mattresses call and what it touched
    batch_call          \* the last generate_embeddings_batch call and what it returned

fusionVars == <<pc, n_results, budget_filter, all_results, pass_hits, final_results>>

loaderVars ==
    <<mattresses, loader_pc, idx, existing_ids, rag_data, rag_result, lookup_id,
      lookup_result>>

roundTripVars == <<rt_pc, rt_features, rt_text, rt_restored>>

embedVars ==
    <<gpt_client, embedding_model, embedding_cache, embed_calls, last_call,
      first_result>>

storeVars == <<store_ranking, pass_info, store_queries, model_calls>>

relevanceVars == <<relevance_client, relevance_cache, relevance_calls, last_check>>

agentVars == <<agent_pc, agent_query, agent_calls, stages_invoked, agent_result,
               history>>

normVars == <<raw_mattresses, norm_pc, norm_idx, normalized_mattresses,
              prices_converted>>

kwVars == <<kw_pc, kw_text, weighted_keywords>>

idVars ==
    <<id_pc, id_raw, id_sanitized, id_record, id_existing, id_unique, id_counter>>

synVars ==
    <<syn_client, synonym_cache, syn_calls, last_synonyms, has_generator, enh_pc,
      enh_text, enh_lookups, enhanced_text>>

sysVars ==
    <<is_initialized, collection_handle, collection_rows, system_calls, last_init,
      system_search, batch_call>>

vars == <<fusionVars, loaderVars, roundTripVars, embedVars, storeVars, relevanceVars,
          agentVars, normVars, kwVars, idVars, synVars, sysVars>>

----------------------------------------------------------------------------
(* Bounds and sample inputs *)

MaxK == 2

\* the candidate ids the vector store may return
Docs == {"mattress_a", "mattress_b"}

\* metadata['price'] of each stored document, in tenths of manwon
Price10(doc_id) == IF doc_id = "mattress_a" THEN 796 ELSE 905

\* raw distances the store may report, in hundredths; the collection is
\* created without "hnsw:space" (rag_system.py:417-420), so the store uses its
\* default squared-L2 metric, whose distances between unit vectors range
\* over [0, 4] (2.0 for orthogonal vectors)
Distances == {10, 30, 35, 40, 200}

\* budget filters tried: None, integer bounds, a non-integer upper bound
BudgetFilters == {<<>>, <<0, 800>>, <<0, 798>>, <<850, 1000>>}

Strategies == {"enhanced", "few_shot", "original"}

----------------------------------------------------------------------------
(* Helpers *)

Min(a, b) == IF a <= b THEN a ELSE b

\* every answer of a nearest-neighbour query: hits [id, distance] with
\* distinct ids, nearest first
HitLists ==
    LET Hit == [id : Docs, distance : Distances]
    IN  UNION {
          {s \in [1..n -> Hit] :
              \A i, j \in 1..n :
                  /\ i # j => s[i].id # s[j].id
                  /\ i < j => s[i].distance <= s[j].distance}
          : n \in 0..Cardinality(Docs)}

\* index of doc_id in a sequence of entries, 0 when absent
IndexOf(seq, doc_id) ==
    IF \E i \in DOMAIN seq : seq[i].doc_id = doc_id
    THEN CHOOSE i \in DOMAIN seq : seq[i].doc_id = doc_id
    ELSE 0

----------------------------------------------------------------------------
(* rag_system.py: fusion *)

\* pass weights of search_mattresses, in tenths
Weight10(strategy) ==
    CASE strategy = "enhanced" -> 10
      [] strategy = "few_shot" -> 8
      [] strategy = "original" -> 6

\* (1 - distance) * weight, in thousandths
weighted_score(distance, weight10) == (100 - distance) * weight10

\* mutant: a candidate seen again in a later pass is not counted again
add_one_result_counted_once(results, hit, weight10, strategy) ==
    LET ws == weighted_score(hit.distance, weight10)
        at == IndexOf(results, hit.id)
    IN  IF at = 0
        THEN Append(results, [doc_id |-> hit.id,
                              scores |-> [s \in {strategy} |-> ws],
                              total_score |-> ws,
                              strategy_count |-> 1])
        ELSE [results EXCEPT ![at] =
                [doc_id |-> results[at].doc_id,
                 scores |-> [s \in (DOMAIN results[at].scores) \cup {strategy} |->
                                IF s = strategy THEN ws ELSE results[at].scores[s]],
                 total_score |-> results[at].total_score + ws,
                 strategy_count |-> results[at].strategy_count]]

\* one iteration of the loop of _add_weighted_results
add_one_result(results, hit, weight10, strategy) ==
    LET ws  == weighted_score(hit.distance, weight10)
        at  == IndexOf(results, hit.id)
        base == IF at = 0
                THEN Append(results, [doc_id |-> hit.id,
                                      scores |-> [s \in {} |-> 0],
                                      total_score |-> 0,
                                      strategy_count |-> 0])
                ELSE results
        i   == IF at = 0 THEN Len(base) ELSE at
        e   == base[i]
    IN  [base EXCEPT ![i] =
            [doc_id |-> e.doc_id,
             scores |-> [s \in (DOMAIN e.scores) \cup {strategy} |->
                            IF s = strategy THEN ws ELSE e.scores[s]],
             total_score |-> e.total_score + ws,
             strategy_count |-> e.strategy_count + 1]]

RECURSIVE add_from(_, _, _, _, _)
add_from(results, hits, i, weight10, strategy) ==
    IF i > Len(hits) THEN results
    ELSE add_from(add_one_result(results, hits[i], weight10, strategy),
                  hits, i + 1, weight10, strategy)

\* _add_weighted_results: an empty search result leaves all_results alone
add_weighted_results(results, hits, weight10, strategy) ==
    IF Len(hits) = 0 THEN results
    ELSE add_from(results, hits, 1, weight10, strategy)

\* Python's round() on a float, to an int: half to even
py_round10(x10) ==
    LET q == x10 \div 10
        r == x10 % 10
    IN  IF r < 5 THEN q
        ELSE IF r > 5 THEN q + 1
        ELSE IF q % 2 = 0 THEN q ELSE q + 1

\* mutant: the lower bound of the budget is not tested
passes_budget_max_only(price10, budget) ==
    IF Len(budget) = 0 THEN TRUE
    ELSE ~(price10 > budget[2])

\* the budget test of _calculate_final_results: TRUE when the entry is kept
passes_budget(price10, budget) ==
    IF Len(budget) = 0 THEN TRUE
    ELSE ~(price10 < budget[1] \/ price10 > budget[2])

\* mutant: the strategy bonuses are left out
final_score_no_bonus(data) ==
    Min(data.total_score * (6 \div data.strategy_count), 6000)

\* mutant: the multi-strategy bonus is 0.15 whatever the number of strategies
final_score_flat_multi_bonus(data) ==
    LET avg_score == data.total_score * (6 \div data.strategy_count)
        enhancement_bonus ==
            (IF "enhanced" \in DOMAIN data.scores THEN 900 ELSE 0)
          + (IF "few_shot" \in DOMAIN data.scores THEN 600 ELSE 0)
    IN  Min(avg_score + enhancement_bonus + 900, 6000)

\* the final score of one entry, in 1/6000
final_score(data) ==
    LET avg_score == data.total_score * (6 \div data.strategy_count)
        enhancement_bonus ==
            (IF "enhanced" \in DOMAIN data.scores THEN 900 ELSE 0)
          + (IF "few_shot" \in DOMAIN data.scores THEN 600 ELSE 0)
        multi_bonus == Min(data.strategy_count * 300, 900)
    IN  Min(avg_score + enhancement_bonus + multi_bonus, 6000)

\* mutant: every strategy is reported for every result
format_result_all_strategies(data, score) ==
    [id |-> data.doc_id,
     price |-> py_round10(Price10(data.doc_id)),
     similarity_score |-> score,
     strategies_used |-> Strategies]

\* _format_result, the fields the ranking is about
format_result(data, score) ==
    [id |-> data.doc_id,
     price |-> py_round10(Price10(data.doc_id)),
     similarity_score |-> score,
     strategies_used |-> DOMAIN data.scores]

\* list.sort(key=similarity_score, reverse=True): stable, descending
RECURSIVE insert_desc(_, _)
insert_desc(sorted, x) ==
    IF sorted = <<>> THEN <<x>>
    ELSE IF sorted[Len(sorted)].similarity_score >= x.similarity_score
         THEN Append(sorted, x)
         ELSE Append(insert_desc(SubSeq(sorted, 1, Len(sorted) - 1), x),
                     sorted[Len(sorted)])

RECURSIVE sort_desc_from(_, _, _)
sort_desc_from(sorted, seq, i) ==
    IF i > Len(seq) THEN sorted
    ELSE sort_desc_from(insert_desc(sorted, seq[i]), seq, i + 1)

\* mutant: an unstable sort, equal scores come out in reverse insertion order
RECURSIVE insert_desc_strict(_, _)
insert_desc_strict(sorted, x) ==
    IF sorted = <<>> THEN <<x>>
    ELSE IF sorted[Len(sorted)].similarity_score > x.similarity_score
         THEN Append(sorted, x)
         ELSE Append(insert_desc_strict(SubSeq(sorted, 1, Len(sorted) - 1), x),
                     sorted[Len(sorted)])

RECURSIVE sort_strict_from(_, _, _)
sort_strict_from(sorted, seq, i) ==
    IF i > Len(seq) THEN sorted
    ELSE sort_strict_from(insert_desc_strict(sorted, seq[i]), seq, i + 1)

sort_by_score_ties_reversed(seq) == sort_strict_from(<<>>, seq, 1)

sort_by_score(seq) == sort_desc_from(<<>>, seq, 1)

\* mutant: the slice is forgotten
take_all(seq, n) == seq

\* final_results[:n_results]
take(seq, n) == SubSeq(seq, 1, Min(n, Len(seq)))

RECURSIVE scored_from(_, _, _)
scored_from(results, budget, i) ==
    IF i > Len(results) THEN <<>>
    ELSE LET data == results[i]
             rest == scored_from(results, budget, i + 1)
         IN  IF passes_budget(Price10(data.doc_id), budget)
             THEN <<format_result(data, final_score(data))>> \o rest
             ELSE rest

\* mutant: the ranking is cut to n before the budget filter is applied
calculate_final_results_cut_first(results, budget, n) ==
    LET InBudget(r) == passes_budget(Price10(r.id), budget)
    IN  SelectSeq(take(sort_by_score(scored_from(results, <<>>, 1)), n), InBudget)

calculate_final_results(results, budget, n) ==
    take(sort_by_score(scored_from(results, budget, 1)), n)

----------------------------------------------------------------------------
(* The fusion steps of one search_mattresses call, with the three search     *)
(* results given: any lists of hits.                                         *)

NoHits == [s \in Strategies |-> <<>>]

\* no get_mattress_by_id call was made
NoLookup == [kind |-> "not called", src |-> 0]

LoaderIdle ==
    /\ mattresses = <<>>
    /\ loader_pc = "idle"
    /\ idx = 1
    /\ existing_ids = {}
    /\ rag_data = <<>>
    /\ rag_result = <<>>
    /\ lookup_id = <<>>
    /\ lookup_result = NoLookup

RoundTripIdle ==
    /\ rt_pc = "idle"
    /\ rt_features = <<>>
    /\ rt_text = <<>>
    /\ rt_restored = <<>>

\* a vector is named by the text that was encoded and by how that text was
\* prepared; NoVec stands for "no vector"
\* the embedding models __init__ may have loaded: whether 'roberta' occurs in
\* the lowercased model_name, and the dimension of the vectors the model
\* encodes.  The first three are entries of korean_models (ko-sroberta, 768;
\* KR-SBERT, 768; MiniLM, 384), the last a model_name given by the caller.
FirstModel == [roberta |-> TRUE, dim |-> 768]

LoadedModels ==
    { FirstModel,
      [roberta |-> FALSE, dim |-> 768],
      [roberta |-> FALSE, dim |-> 384],
      [roberta |-> TRUE, dim |-> 1024] }

\* default_dim = 768 if 'roberta' in self.model_name.lower() else 384
default_dim(model) == IF model.roberta THEN 768 ELSE 384

NoVec == [text |-> "", form |-> "none"]

NoCall == [text |-> "", flag |-> FALSE, result |-> NoVec, hit |-> FALSE,
           model_invoked |-> FALSE, gpt_invoked |-> FALSE,
           seen_before |-> FALSE, ok_before |-> FALSE]

EmbedIdle ==
    /\ gpt_client = FALSE
    /\ embedding_model = FirstModel
    /\ embedding_cache = <<>>
    /\ embed_calls = 0
    /\ last_call = NoCall
    /\ first_result = <<>>

NoPassInfo == [s \in Strategies |-> [vec |-> NoVec, ok |-> FALSE]]

StoreIdle ==
    /\ store_ranking = <<>>
    /\ pass_info = NoPassInfo
    /\ store_queries = <<>>
    /\ model_calls = 0

NoResult == [is_relevant |-> FALSE, reason |-> "none", confidence |-> 0,
             method |-> "none"]

NoCheck == [query |-> <<>>, cached |-> FALSE, gpt_invoked |-> FALSE,
            reply |-> "none", result |-> NoResult]

RelevanceIdle ==
    /\ relevance_client = FALSE
    /\ relevance_cache = <<>>
    /\ relevance_calls = 0
    /\ last_check = NoCheck

NoAgentResult == [kind |-> "none", success |-> FALSE, search_results |-> <<>>,
                  filtered_question |-> FALSE]

AgentIdle ==
    /\ agent_pc = "idle"
    /\ agent_query = <<>>
    /\ agent_calls = 0
    /\ stages_invoked = {}
    /\ agent_result = NoAgentResult
    /\ history = <<>>

NormIdle ==
    /\ raw_mattresses = <<>>
    /\ norm_pc = "idle"
    /\ norm_idx = 1
    /\ normalized_mattresses = <<>>
    /\ prices_converted = <<>>

KeywordIdle ==
    /\ kw_pc = "idle"
    /\ kw_text = <<>>
    /\ weighted_keywords = <<>>

IdIdle ==
    /\ id_pc = "idle"
    /\ id_raw = <<>>
    /\ id_sanitized = <<>>
    /\ id_record = <<>>
    /\ id_existing = {}
    /\ id_unique = <<>>
    /\ id_counter = 1

\* no generate_synonyms call was made
NoSynonymCall == [keyword |-> <<>>, reply |-> "none", asked |-> FALSE,
                  cached |-> FALSE, result |-> <<>>]

\* no text was returned
NoText == [kind |-> "none", text |-> <<>>]

SynonymIdle ==
    /\ syn_client = FALSE
    /\ synonym_cache = <<>>
    /\ syn_calls = 0
    /\ last_synonyms = NoSynonymCall
    /\ has_generator = FALSE
    /\ enh_pc = "idle"
    /\ enh_text = <<>>
    /\ enh_lookups = <<>>
    /\ enhanced_text = NoText

NoInit == [made |-> FALSE, reset_db |-> FALSE, returned |-> FALSE,
           documents |-> <<>>, ids |-> <<>>, embeddings |-> <<>>]

NoSystemSearch == [made |-> FALSE, init_failed |-> FALSE, model_calls |-> 0,
                   store_queries |-> 0, results |-> <<>>]

NoBatchCall == [made |-> FALSE, texts |-> <<>>, batch_size |-> 0, raised |-> FALSE,
                fallback |-> FALSE, embeddings |-> <<>>]

\* the system after an initialize_with_data call that returned True
SystemReady ==
    /\ is_initialized = TRUE
    /\ collection_handle = TRUE
    /\ collection_rows = <<>>
    /\ system_calls = 0
    /\ last_init = NoInit
    /\ system_search = NoSystemSearch
    /\ batch_call = NoBatchCall

SystemIdle ==
    /\ is_initialized = FALSE
    /\ collection_handle = FALSE
    /\ collection_rows = <<>>
    /\ system_calls = 0
    /\ last_init = NoInit
    /\ system_search = NoSystemSearch
    /\ batch_call = NoBatchCall

FusionInit ==
    /\ LoaderIdle
    /\ RoundTripIdle
    /\ EmbedIdle
    /\ StoreIdle
    /\ RelevanceIdle
    /\ AgentIdle
    /\ NormIdle
    /\ KeywordIdle
    /\ IdIdle
    /\ SynonymIdle
    /\ SystemIdle
    /\ pc = "enhanced"
    /\ n_results \in 1..MaxK
    /\ budget_filter \in BudgetFilters
    /\ all_results = <<>>
    /\ pass_hits = NoHits
    /\ final_results = <<>>

AddPass(strategy, next) ==
    /\ pc = strategy
    /\ \E hits \in HitLists :
        /\ pass_hits' = [pass_hits EXCEPT ![strategy] = hits]
        /\ all_results' = add_weighted_results(all_results, hits,
                                               Weight10(strategy), strategy)
    /\ pc' = next
    /\ UNCHANGED <<n_results, budget_filter, final_results>>
    /\ UNCHANGED <<loaderVars, roundTripVars, embedVars, storeVars, relevanceVars, agentVars,
                   normVars, kwVars,
                   idVars,
                   synVars,
                   sysVars>>

AddEnhanced == AddPass("enhanced", "few_shot")

AddFewShot == AddPass("few_shot", "original")

AddOriginal == AddPass("original", "calculate")

CalculateFinal ==
    /\ pc = "calculate"
    /\ final_results' = calculate_final_results(all_results, budget_filter, n_results)
    /\ pc' = "done"
    /\ UNCHANGED <<n_results, budget_filter, all_results, pass_hits>>
    /\ UNCHANGED <<loaderVars, roundTripVars, embedVars, storeVars, relevanceVars, agentVars,
                   normVars, kwVars,
                   idVars,
                   synVars,
                   sysVars>>

FusionNext == AddEnhanced \/ AddFewShot \/ AddOriginal \/ CalculateFinal

SpecFusion == FusionInit /\ [][FusionNext]_vars

----------------------------------------------------------------------------
(* Claims about the fusion and the ranking *)

Done == pc = "done"

Entry(doc_id) == all_results[IndexOf(all_results, doc_id)]

InAll(doc_id) == IndexOf(all_results, doc_id) # 0

PosInFinal(doc_id) ==
    IF \E i \in DOMAIN final_results : final_results[i].id = doc_id
    THEN CHOOSE i \in DOMAIN final_results : final_results[i].id = doc_id
    ELSE 0

\* the order of candidate ids, as Python compares the strings
IdLess(a, b) == a = "mattress_a" /\ b = "mattress_b"

\* C1: every returned similarity_score lies in [0, 1], for any passes and any
\* raw distances.
C1_ScoreInUnitInterval ==
    Done => \A i \in DOMAIN final_results :
                /\ final_results[i].similarity_score >= 0
                /\ final_results[i].similarity_score <= 6000

\* C2 as stated: with a budget filter (min, max), numeric bounds of any kind,
\* every returned 'price' lies in [min, max].
C2_PriceInAnyBudget ==
    (Done /\ Len(budget_filter) = 2) =>
        \A i \in DOMAIN final_results :
            /\ final_results[i].price * 10 >= budget_filter[1]
            /\ final_results[i].price * 10 <= budget_filter[2]

IntegerBudget == Len(budget_filter) = 2 /\ budget_filter[1] % 10 = 0
                                        /\ budget_filter[2] % 10 = 0

\* C2 amended: with a budget filter whose bounds are integers, every returned
\* 'price' lies in [min, max].
C2_PriceInIntegerBudget ==
    (Done /\ IntegerBudget) =>
        \A i \in DOMAIN final_results :
            /\ final_results[i].price * 10 >= budget_filter[1]
            /\ final_results[i].price * 10 <= budget_filter[2]

\* a filtered search that kept one candidate and dropped another
C2_Witness ==
    /\ Done /\ IntegerBudget
    /\ Len(final_results) >= 1
    /\ \E d \in Docs : InAll(d) /\ PosInFinal(d) = 0 /\ Len(final_results) < n_results

\* C4 as stated: of two results with equal scores the one with the smaller
\* id comes first.
C4_TiesById ==
    Done => \A i, j \in DOMAIN final_results :
                (i < j /\ final_results[i].similarity_score
                          = final_results[j].similarity_score)
                => IdLess(final_results[i].id, final_results[j].id)

\* C4 amended: two results with equal scores keep the order in which the
\* passes first surfaced them (the insertion order of all_results).
C4_TiesByInsertion ==
    Done => \A i, j \in DOMAIN final_results :
                (i < j /\ final_results[i].similarity_score
                          = final_results[j].similarity_score)
                => IndexOf(all_results, final_results[i].id)
                   < IndexOf(all_results, final_results[j].id)

\* two results tie and the larger id, surfaced first, comes first
C4_Witness ==
    /\ Done
    /\ Len(final_results) = 2
    /\ final_results[1].similarity_score = final_results[2].similarity_score
    /\ IdLess(final_results[2].id, final_results[1].id)

\* C5: at most n_results results, ordered by score non-increasing, no id twice.
C5_TopKSortedDistinct ==
    Done =>
        /\ Len(final_results) <= n_results
        /\ \A i, j \in DOMAIN final_results :
              i < j => /\ final_results[i].similarity_score
                          >= final_results[j].similarity_score
                       /\ final_results[i].id # final_results[j].id

\* more candidates than n_results, one of them returned by several passes
C5_Witness ==
    /\ Done
    /\ Len(budget_filter) = 0
    /\ Len(all_results) > n_results
    /\ Len(final_results) = n_results
    /\ \E i \in DOMAIN all_results : all_results[i].strategy_count = 3

\* doc_id was returned by the pass with raw similarity sim (hundredths)
HasSim(strategy, doc_id, sim) ==
    \E i \in DOMAIN pass_hits[strategy] :
        /\ pass_hits[strategy][i].id = doc_id
        /\ 100 - pass_hits[strategy][i].distance = sim

InPass(strategy, doc_id) ==
    \E i \in DOMAIN pass_hits[strategy] : pass_hits[strategy][i].id = doc_id

\* x in all three passes with similarities 0.70, 0.65, 0.60; y in pass C only
\* with similarity 0.90
C9_Scenario(x, y) ==
    /\ HasSim("enhanced", x, 70) /\ HasSim("few_shot", x, 65)
    /\ HasSim("original", x, 60)
    /\ ~InPass("enhanced", y) /\ ~InPass("few_shot", y)
    /\ HasSim("original", y, 90)

\* C9: in that scenario x scores strictly higher than y (5560/6000 against
\* 3540/6000) and is ranked before it.
C9_ThreePassOutranksSinglePass ==
    Done => \A x, y \in Docs :
        C9_Scenario(x, y) =>
            /\ final_score(Entry(x)) > final_score(Entry(y))
            /\ PosInFinal(x) # 0 =>
                  /\ final_results[PosInFinal(x)].similarity_score = 5560
                  /\ PosInFinal(x) = 1
            /\ PosInFinal(y) # 0 =>
                  /\ final_results[PosInFinal(y)].similarity_score = 3540
                  /\ PosInFinal(x) # 0 => PosInFinal(x) < PosInFinal(y)

C9_Witness ==
    /\ Done
    /\ \E x, y \in Docs :
          C9_Scenario(x, y) /\ PosInFinal(x) = 1 /\ PosInFinal(y) = 2

----------------------------------------------------------------------------
(* data_loader.py: identifiers.  A Python str is a sequence of one-character *)
(* strings.                                                                  *)

MaxCatalog == 3

MaxSuffixAttempts == 1000

MaxIdLen == 100

IdKeep == 80

HashLen == 8

\* characters str.strip() removes
Whitespace == {" "}

\* the characters of the sample inputs that match [^\w가-힣]
NonWordChars == {" ", "-", ",", "/"}

Digits == {"0", "1", "2", "3", "4", "5", "6", "7", "8", "9"}

DigitChars == <<"0", "1", "2", "3", "4", "5", "6", "7", "8", "9">>

S_mattress_ == <<"m", "a", "t", "t", "r", "e", "s", "s", "_">>

S_unknown_mattress == <<"u", "n", "k", "n", "o", "w", "n", "_">>
                      \o <<"m", "a", "t", "t", "r", "e", "s", "s">>

S_mattress_unknown == S_mattress_ \o <<"u", "n", "k", "n", "o", "w", "n">>

S_fallback == <<"f", "a", "l", "l", "b", "a", "c", "k">>

\* str(n) of a non-negative int
RECURSIVE py_str_int(_)
py_str_int(n) ==
    IF n < 10 THEN <<DigitChars[n + 1]>>
    ELSE Append(py_str_int(n \div 10), DigitChars[(n % 10) + 1])

RECURSIVE lstrip(_, _)
lstrip(s, chars) ==
    IF s # <<>> /\ s[1] \in chars THEN lstrip(Tail(s), chars) ELSE s

RECURSIVE rstrip(_, _)
rstrip(s, chars) ==
    IF s # <<>> /\ s[Len(s)] \in chars
    THEN rstrip(SubSeq(s, 1, Len(s) - 1), chars)
    ELSE s

\* str.strip(chars)
py_strip(s, chars) == rstrip(lstrip(s, chars), chars)

\* re.sub(r'[^\w가-힣]', '_', s)
sub_nonword(s) == [i \in DOMAIN s |-> IF s[i] \in NonWordChars THEN "_" ELSE s[i]]

\* re.sub(r'_+', '_', s): every run of underscores becomes one underscore.
\* The two halves are collapsed on their own and a run that spans the middle
\* is joined, which keeps the evaluation shallow for long identifiers.
RECURSIVE collapse_underscores(_)
collapse_underscores(s) ==
    IF Len(s) < 2 THEN s
    ELSE LET half == Len(s) \div 2
             left == collapse_underscores(SubSeq(s, 1, half))
             right == collapse_underscores(SubSeq(s, half + 1, Len(s)))
         IN  IF left[Len(left)] = "_" /\ right[1] = "_"
             THEN left \o Tail(right)
             ELSE left \o right

\* the characters of s as one string
RECURSIVE str_of(_)
str_of(s) ==
    IF s = <<>> THEN ""
    ELSE IF Len(s) = 1 THEN s[1]
    ELSE LET half == Len(s) \div 2
         IN  str_of(SubSeq(s, 1, half)) \o str_of(SubSeq(s, half + 1, Len(s)))

\* hashlib.md5(s.encode()).hexdigest()[:8]: HashLen characters that determine
\* and are determined by s (a digest without collisions); the first of them
\* stands for the digest, the others are filler
md5_8(s) == <<"md5:" \o str_of(s)>> \o [i \in 1..(HashLen - 1) |-> "x"]

\* _sanitize_id
sanitize_id(raw_id) ==
    IF raw_id = <<>> THEN S_unknown_mattress
    ELSE LET s1 == py_strip(raw_id, Whitespace)
             s2 == sub_nonword(s1)
             s3 == collapse_underscores(s2)
             s4 == py_strip(s3, {"_"})
             s5 == IF Len(s4) > MaxIdLen
                   THEN SubSeq(s4, 1, IdKeep) \o <<"_">> \o md5_8(s4)
                   ELSE s4
             s6 == IF s5 = <<>> THEN S_mattress_unknown ELSE s5
         IN  IF s6[1] \in Digits THEN S_mattress_ \o s6 ELSE s6

\* f"mattress_{unique_hash}" with the hash of f"{base_id}_{counter}"
hash_id(base_id, counter) ==
    S_mattress_ \o md5_8(base_id \o <<"_">> \o py_str_int(counter))

\* f"{sanitized_id}_{counter}"
suffixed_id(sanitized_id, counter) == sanitized_id \o <<"_">> \o py_str_int(counter)

\* the while loop of _generate_unique_id, entered with final_id and counter
RECURSIVE unique_loop(_, _, _, _, _)
unique_loop(base_id, sanitized_id, final_id, counter, existing) ==
    IF final_id \notin existing THEN final_id
    ELSE LET next_id == suffixed_id(sanitized_id, counter)
             c == counter + 1
         IN  IF c > MaxSuffixAttempts
             THEN hash_id(base_id, c)
             ELSE unique_loop(base_id, sanitized_id, next_id, c, existing)

\* mattress.get(...).strip() raises AttributeError for a value that is no str
id_raises(mattress) == ~mattress.name_is_str \/ ~mattress.brand_is_str

\* base_id = f"mattress_{brand}_{name}", for a record whose name and brand
\* are str
base_id_of(mattress) ==
    LET name == py_strip(mattress.name, Whitespace)
        brand == py_strip(mattress.brand, Whitespace)
    IN  S_mattress_ \o brand \o <<"_">> \o name

\* _generate_unique_id, for a record whose name and brand are str
generate_unique_id(mattress, existing) ==
    LET base_id == base_id_of(mattress)
        sanitized_id == sanitize_id(base_id)
    IN  unique_loop(base_id, sanitized_id, sanitized_id, 1, existing)

\* ', '.join(items)
RECURSIVE join_comma_space(_)
join_comma_space(items) ==
    IF items = <<>> THEN <<>>
    ELSE IF Len(items) = 1 THEN items[1]
    ELSE items[1] \o <<",", " ">> \o join_comma_space(Tail(items))

\* the fallback id f"mattress_fallback_{i}" of the except branch, i from 0
fallback_id(i) == S_mattress_ \o S_fallback \o <<"_">> \o py_str_int(i)

\* features_text of the metadata: joined, then stripped by _validate_metadata
features_text_of(features) ==
    IF features.kind = "list"
    THEN py_strip(join_comma_space(features.items), Whitespace)
    ELSE <<>>

\* one iteration of the loop of preprocess_for_rag: the new existing_ids and
\* the item appended.  A features value that is truthy and not iterable
\* (kind "scalar") raises in the join, after the id was generated and added.
preprocess_one(mattress, i, existing) ==
    IF id_raises(mattress)
    THEN [existing |-> existing,
          item |-> [id |-> fallback_id(i), src |-> i + 1, fallback |-> TRUE,
                    features_text |-> <<>>]]
    ELSE LET mattress_id == generate_unique_id(mattress, existing)
             added == existing \cup {mattress_id}
         IN  IF mattress.features.kind = "scalar"
             THEN [existing |-> added,
                   item |-> [id |-> fallback_id(i), src |-> i + 1,
                             fallback |-> TRUE, features_text |-> <<>>]]
             ELSE [existing |-> added,
                   item |-> [id |-> mattress_id, src |-> i + 1,
                             fallback |-> FALSE,
                             features_text |-> features_text_of(mattress.features)]]

\* the final duplicate check: the first item of each id is kept
RECURSIVE deduplicate(_, _)
deduplicate(items, seen_ids) ==
    IF items = <<>> THEN <<>>
    ELSE IF items[1].id \in seen_ids
         THEN deduplicate(Tail(items), seen_ids)
         ELSE <<items[1]>> \o deduplicate(Tail(items), seen_ids \cup {items[1].id})

\* get_mattress_by_id: the loop over self.mattresses from index i on.  The id
\* of each record is generated again, against an empty set of existing ids;
\* a name or brand that is no str raises out of the call.
RECURSIVE get_by_id_from(_, _, _)
get_by_id_from(records, i, mattress_id) ==
    IF i > Len(records) THEN [kind |-> "None", src |-> 0]
    ELSE IF id_raises(records[i]) THEN [kind |-> "raised", src |-> i]
    ELSE IF generate_unique_id(records[i], {}) = mattress_id
         THEN [kind |-> "found", src |-> i]
         ELSE get_by_id_from(records, i + 1, mattress_id)

get_mattress_by_id(records, mattress_id) == get_by_id_from(records, 1, mattress_id)

\* sample records, as _normalize_mattress_prices leaves them (name and brand
\* present and truthy)
NoFeatures == [kind |-> "missing", items |-> <<>>]

Rec(brand, name) ==
    [brand |-> brand, brand_is_str |-> TRUE, name |-> name, name_is_str |-> TRUE,
     features |-> [kind |-> "list", items |-> <<<<"a">>>>]]

RecordPool ==
    { Rec(<<"A">>, <<"x">>),
      Rec(<<"A">>, <<"x", " ", "1">>),
      Rec(S_fallback, <<"0">>),
      \* "name": 7 in the catalog file
      [Rec(<<"A">>, <<"7">>) EXCEPT !.name_is_str = FALSE],
      \* "features": 5 in the catalog file
      [Rec(<<"A">>, <<"x">>) EXCEPT !.features = [kind |-> "scalar", items |-> <<>>]],
      [Rec(<<" ">>, <<"A", "-", "x">>) EXCEPT !.features = NoFeatures] }

Catalogs == UNION {[1..n -> RecordPool] : n \in 0..MaxCatalog}

FusionIdle ==
    /\ pc = "idle"
    /\ n_results = 1
    /\ budget_filter = <<>>
    /\ all_results = <<>>
    /\ pass_hits = NoHits
    /\ final_results = <<>>

LoaderInit ==
    /\ FusionIdle
    /\ RoundTripIdle
    /\ EmbedIdle
    /\ StoreIdle
    /\ RelevanceIdle
    /\ AgentIdle
    /\ NormIdle
    /\ KeywordIdle
    /\ IdIdle
    /\ SynonymIdle
    /\ SystemIdle
    /\ mattresses \in Catalogs
    /\ loader_pc = "start"
    /\ idx = 1
    /\ existing_ids = {}
    /\ rag_data = <<>>
    /\ rag_result = <<>>
    /\ lookup_id = <<>>
    /\ lookup_result = NoLookup

\* if not self.mattresses: return []
PreprocessEmpty ==
    /\ loader_pc = "start"
    /\ mattresses = <<>>
    /\ rag_result' = <<>>
    /\ loader_pc' = "done"
    /\ UNCHANGED <<mattresses, idx, existing_ids, rag_data, lookup_id, lookup_result>>
    /\ UNCHANGED <<fusionVars, roundTripVars, embedVars, storeVars, relevanceVars, agentVars,
                   normVars, kwVars,
                   idVars,
                   synVars,
                   sysVars>>

PreprocessStart ==
    /\ loader_pc = "start"
    /\ mattresses # <<>>
    /\ loader_pc' = "loop"
    /\ UNCHANGED <<mattresses, idx, existing_ids, rag_data, rag_result, lookup_id,
                   lookup_result>>
    /\ UNCHANGED <<fusionVars, roundTripVars, embedVars, storeVars, relevanceVars, agentVars,
                   normVars, kwVars,
                   idVars,
                   synVars,
                   sysVars>>

PreprocessRecord ==
    /\ loader_pc = "loop"
    /\ idx <= Len(mattresses)
    /\ LET r == preprocess_one(mattresses[idx], idx - 1, existing_ids)
       IN  /\ existing_ids' = r.existing
           /\ rag_data' = Append(rag_data, r.item)
    /\ idx' = idx + 1
    /\ UNCHANGED <<mattresses, loader_pc, rag_result, lookup_id, lookup_result>>
    /\ UNCHANGED <<fusionVars, roundTripVars, embedVars, storeVars, relevanceVars, agentVars,
                   normVars, kwVars,
                   idVars,
                   synVars,
                   sysVars>>

PreprocessFinish ==
    /\ loader_pc = "loop"
    /\ idx > Len(mattresses)
    /\ rag_result' =
          IF Cardinality({rag_data[i].id : i \in DOMAIN rag_data}) # Len(rag_data)
          THEN deduplicate(rag_data, {})
          ELSE rag_data
    /\ loader_pc' = "done"
    /\ UNCHANGED <<mattresses, idx, existing_ids, rag_data, lookup_id, lookup_result>>
    /\ UNCHANGED <<fusionVars, roundTripVars, embedVars, storeVars, relevanceVars, agentVars,
                   normVars, kwVars,
                   idVars,
                   synVars,
                   sysVars>>

\* get_mattress_by_id(mattress_id) for an id that preprocess_for_rag assigned
GetMattressById ==
    /\ loader_pc = "done"
    /\ lookup_result = NoLookup
    /\ \E i \in DOMAIN rag_result :
        /\ lookup_id' = rag_result[i].id
        /\ lookup_result' = get_mattress_by_id(mattresses, rag_result[i].id)
    /\ UNCHANGED <<mattresses, loader_pc, idx, existing_ids, rag_data, rag_result>>
    /\ UNCHANGED <<fusionVars, roundTripVars, embedVars, storeVars, relevanceVars, agentVars,
                   normVars, kwVars, idVars,
                   synVars,
                   sysVars>>

LoaderNext ==
    \/ PreprocessEmpty
    \/ PreprocessStart
    \/ PreprocessRecord
    \/ PreprocessFinish
    \/ GetMattressById

SpecLoader == LoaderInit /\ [][LoaderNext]_vars

----------------------------------------------------------------------------
(* Claims about the identifiers *)

LoaderDone == loader_pc = "done"

ResultIds == {rag_result[i].id : i \in DOMAIN rag_result}

ResultOf(k) ==
    IF \E i \in DOMAIN rag_result : rag_result[i].src = k
    THEN (CHOOSE i \in DOMAIN rag_result : rag_result[i].src = k)
    ELSE 0

\* C3: every record of the catalog appears in the output of preprocess_for_rag
\* with a non-empty id, no two entries share an id, and two records with the
\* same brand and name both appear, with different ids.
C3_UniqueIdsNoRecordDropped ==
    LoaderDone =>
        /\ Len(rag_result) = Len(mattresses)
        /\ \A i, j \in DOMAIN rag_result :
              /\ rag_result[i].id # <<>>
              /\ i # j => rag_result[i].id # rag_result[j].id
        /\ \A k, l \in DOMAIN mattresses :
              (k # l /\ mattresses[k].brand = mattresses[l].brand
                     /\ mattresses[k].name = mattresses[l].name)
              => /\ ResultOf(k) # 0 /\ ResultOf(l) # 0
                 /\ rag_result[ResultOf(k)].id # rag_result[ResultOf(l)].id

----------------------------------------------------------------------------
(* A features list through the vector store: serialized by                   *)
(* preprocess_for_rag, read back by _format_result.  target_users goes       *)
(* through the same two expressions.                                         *)

MaxElemLen == 3

MaxListLen == 2

\* the characters of the sample elements
ElemChars == {"a", ",", " "}

\* every str of at most MaxElemLen characters, the empty one included
ElemStrings == UNION {[1..n -> ElemChars] : n \in 0..MaxElemLen}

FeatureLists == UNION {[1..n -> ElemStrings] : n \in 0..MaxListLen}

\* ', '.join(str(f) for f in features) if features else '', and the strip of
\* _validate_metadata
serialize_features(features) ==
    py_strip(IF features # <<>> THEN join_comma_space(features) ELSE <<>>,
             Whitespace)

\* str.split(','): the pieces between the commas, empty pieces included
RECURSIVE split_comma_from(_, _, _)
split_comma_from(s, i, piece) ==
    IF i > Len(s) THEN <<piece>>
    ELSE IF s[i] = ","
         THEN <<piece>> \o split_comma_from(s, i + 1, <<>>)
         ELSE split_comma_from(s, i + 1, Append(piece, s[i]))

split_comma(s) == split_comma_from(s, 1, <<>>)

\* [f.strip() for f in pieces if f.strip()]
RECURSIVE strip_nonempty(_)
strip_nonempty(pieces) ==
    IF pieces = <<>> THEN <<>>
    ELSE LET f == py_strip(pieces[1], Whitespace)
         IN  IF f # <<>> THEN <<f>> \o strip_nonempty(Tail(pieces))
             ELSE strip_nonempty(Tail(pieces))

\* the features of _format_result
restore_features(features_text) ==
    IF features_text # <<>> THEN strip_nonempty(split_comma(features_text))
    ELSE <<>>

RoundTripInit ==
    /\ FusionIdle
    /\ LoaderIdle
    /\ EmbedIdle
    /\ StoreIdle
    /\ RelevanceIdle
    /\ AgentIdle
    /\ NormIdle
    /\ KeywordIdle
    /\ IdIdle
    /\ SynonymIdle
    /\ SystemIdle
    /\ rt_pc = "input"
    /\ rt_features \in FeatureLists
    /\ rt_text = <<>>
    /\ rt_restored = <<>>

StoreFeatures ==
    /\ rt_pc = "input"
    /\ rt_text' = serialize_features(rt_features)
    /\ rt_pc' = "stored"
    /\ UNCHANGED <<rt_features, rt_restored>>
    /\ UNCHANGED <<fusionVars, loaderVars, embedVars, storeVars, relevanceVars, agentVars,
                   normVars, kwVars,
                   idVars,
                   synVars,
                   sysVars>>

RestoreFeatures ==
    /\ rt_pc = "stored"
    /\ rt_restored' = restore_features(rt_text)
    /\ rt_pc' = "restored"
    /\ UNCHANGED <<rt_features, rt_text>>
    /\ UNCHANGED <<fusionVars, loaderVars, embedVars, storeVars, relevanceVars, agentVars,
                   normVars, kwVars,
                   idVars,
                   synVars,
                   sysVars>>

RoundTripNext == StoreFeatures \/ RestoreFeatures

SpecRoundTrip == RoundTripInit /\ [][RoundTripNext]_vars

----------------------------------------------------------------------------
(* Claims about the round trip *)

\* s contains the delimiter comma-plus-space
HasDelimiter(s) == \E i \in 1..(Len(s) - 1) : s[i] = "," /\ s[i + 1] = " "

\* a well-formed element: not empty, it begins and ends with a letter (no
\* blank or comma at either end), and the delimiter does not occur in it
WellFormedElem(s) ==
    /\ s # <<>>
    /\ s[1] = "a" /\ s[Len(s)] = "a"
    /\ ~HasDelimiter(s)

\* C6: a list of well-formed elements not containing the delimiter comes back
\* equal, element for element.
C6_FeaturesRoundTrip ==
    (rt_pc = "restored" /\ \A i \in DOMAIN rt_features : WellFormedElem(rt_features[i]))
        => rt_restored = rt_features

----------------------------------------------------------------------------
(* rag_system.py: FewShotEnhancedEmbeddingManager.generate_embedding         *)

MaxEmbedCalls == 3

\* sample texts; "q_True" is a text whose key could run into that of "q"
EmbedTexts == {"q", "q_True", " "}

\* texts for which `not text or not text.strip()` holds
BlankTexts == {"", " "}

\* the replacement for a blank text, "빈 텍스트"
EmptyText == "<empty text>"

\* what the collaborator may answer to an expansion request: a text, or the
\* request fails
GptReplies == {"fail", "q e1"}

\* what the synonym lookups of create_gpt_enhanced_text brought into the text
SynonymForms == {"enhanced", "enhanced+s1", "enhanced+s2"}

\* the zero vector of the except branch
ZeroVec == [text |-> "", form |-> "zero"]

\* f"{use_enhancement}"
py_str_bool(b) == IF b THEN "True" ELSE "False"

\* mutant: the flag is left out of the key
cache_key_text_only(text, use_enhancement) == text

\* cache_key = f"{text}_{use_enhancement}"
cache_key(text, use_enhancement) == text \o "_" \o py_str_bool(use_enhancement)

\* generate_few_shot_expansion: without a client the query itself, with one
\* the collaborator's answer, and the query again when the request fails
generate_few_shot_expansion(query, client, reply) ==
    IF ~client THEN [text |-> query, gpt_invoked |-> FALSE]
    ELSE IF reply = "fail" THEN [text |-> query, gpt_invoked |-> TRUE]
    ELSE [text |-> reply, gpt_invoked |-> TRUE]

\* mutant: the vector is returned without being stored
store_nothing(cache, key, vec) == cache

\* self.embedding_cache[cache_key] = embedding
store_embedding(cache, key, vec) ==
    [k \in (DOMAIN cache) \cup {key} |-> IF k = key THEN vec ELSE cache[k]]

\* generate_embedding: the new cache, the vector returned and what was invoked.
\* reply and syn are the collaborator's answers, encode_ok whether
\* model.encode returns (TRUE) or raises (FALSE).
generate_embedding(cache, text, use_enhancement, client, reply, syn, encode_ok) ==
    LET key == cache_key(text, use_enhancement)
    IN  IF key \in DOMAIN cache
        THEN [cache |-> cache, result |-> cache[key], hit |-> TRUE,
              model_invoked |-> FALSE, gpt_invoked |-> FALSE]
        ELSE LET text1 == IF text \in BlankTexts THEN EmptyText ELSE text
                 exp == generate_few_shot_expansion(text1, client, reply)
                 vec == IF use_enhancement
                        THEN [text |-> exp.text,
                              form |-> IF client THEN syn ELSE "enhanced"]
                        ELSE [text |-> text1, form |-> "normalized"]
                 gpt == use_enhancement /\ exp.gpt_invoked
             IN  IF encode_ok
                 THEN [cache |-> store_embedding(cache, key, vec), result |-> vec,
                       hit |-> FALSE, model_invoked |-> TRUE, gpt_invoked |-> gpt]
                 ELSE [cache |-> cache, result |-> ZeroVec,
                       hit |-> FALSE, model_invoked |-> TRUE, gpt_invoked |-> gpt]

EmbedInit ==
    /\ FusionIdle
    /\ LoaderIdle
    /\ RoundTripIdle
    /\ StoreIdle
    /\ RelevanceIdle
    /\ AgentIdle
    /\ NormIdle
    /\ KeywordIdle
    /\ IdIdle
    /\ SynonymIdle
    /\ SystemIdle
    /\ gpt_client \in BOOLEAN
    /\ embedding_model \in LoadedModels
    /\ embedding_cache = <<>>
    /\ embed_calls = 0
    /\ last_call = NoCall
    /\ first_result = <<>>

\* one call generate_embedding(text, flag)
CallGenerateEmbedding ==
    /\ embed_calls < MaxEmbedCalls
    /\ \E text \in EmbedTexts, flag \in BOOLEAN, reply \in GptReplies,
          syn \in SynonymForms, encode_ok \in BOOLEAN :
          LET r == generate_embedding(embedding_cache, text, flag, gpt_client,
                                      reply, syn, encode_ok)
              arg == <<text, flag>>
              seen == arg \in DOMAIN first_result
          IN  /\ embedding_cache' = r.cache
              /\ last_call' = [text |-> text, flag |-> flag, result |-> r.result,
                               hit |-> r.hit,
                               model_invoked |-> r.model_invoked,
                               gpt_invoked |-> r.gpt_invoked,
                               seen_before |-> seen,
                               ok_before |-> seen /\ first_result[arg].ok # NoVec]
              /\ first_result' =
                    [a \in (DOMAIN first_result) \cup {arg} |->
                        IF a # arg THEN first_result[a]
                        ELSE IF ~seen
                             THEN [any |-> r.result,
                                   ok |-> IF r.result = ZeroVec THEN NoVec
                                          ELSE r.result]
                             ELSE IF first_result[a].ok = NoVec /\ r.result # ZeroVec
                                  THEN [first_result[a] EXCEPT !.ok = r.result]
                                  ELSE first_result[a]]
    /\ embed_calls' = embed_calls + 1
    /\ UNCHANGED <<gpt_client, embedding_model>>
    /\ UNCHANGED <<fusionVars, loaderVars, roundTripVars, storeVars, relevanceVars, agentVars,
                   normVars, kwVars,
                   idVars,
                   synVars,
                   sysVars>>

EmbedNext == CallGenerateEmbedding

SpecEmbed == EmbedInit /\ [][EmbedNext]_vars

----------------------------------------------------------------------------
(* Claims about the embedding cache *)

LastArg == <<last_call.text, last_call.flag>>

\* every cached vector was made from the text and the flag of its key
CacheEntriesApart ==
    \A text \in EmbedTexts, flag \in BOOLEAN :
        cache_key(text, flag) \in DOMAIN embedding_cache =>
            LET v == embedding_cache[cache_key(text, flag)]
            IN  /\ flag <=> v.form # "normalized"
                /\ ~flag => v.text = (IF text \in BlankTexts THEN EmptyText ELSE text)

\* C8 as stated: a call with arguments used before returns the vector the
\* first call returned and invokes neither the model nor the collaborator;
\* distinct (text, flag) pairs do not share a cache entry.
C8_SecondCallIdentical ==
    /\ last_call.seen_before =>
          /\ last_call.result = first_result[LastArg].any
          /\ ~last_call.model_invoked /\ ~last_call.gpt_invoked
    /\ CacheEntriesApart

\* C8 amended: a call with arguments for which an earlier call succeeded
\* returns the vector of the first successful call and invokes neither the
\* model nor the collaborator; a failed call stores nothing; distinct
\* (text, flag) pairs do not share a cache entry.
C8_CachedAfterSuccess ==
    /\ last_call.ok_before =>
          /\ last_call.result = first_result[LastArg].ok
          /\ last_call.hit
          /\ ~last_call.model_invoked /\ ~last_call.gpt_invoked
    /\ \A k \in DOMAIN embedding_cache : embedding_cache[k] # ZeroVec
    /\ (embed_calls > 0 /\ last_call.result = ZeroVec) =>
          cache_key(last_call.text, last_call.flag) \notin DOMAIN embedding_cache
    /\ CacheEntriesApart

\* a second call with the same arguments after a successful first one, with a
\* collaborator that could have answered differently, and another pair cached
C8_Witness ==
    /\ gpt_client
    /\ last_call.ok_before /\ last_call.flag /\ last_call.hit
    /\ last_call.result.form # "normalized"
    /\ Cardinality(DOMAIN embedding_cache) >= 2

----------------------------------------------------------------------------
(* Claims about the vectors generate_embedding returns                       *)

\* len(embedding): model.encode returns a vector of the model's dimension, the
\* except branch a list of default_dim zeros
vector_dim(vec, model) == IF vec = ZeroVec THEN default_dim(model) ELSE model.dim

\* the vector has length one: model.encode normalizes (normalize_embeddings),
\* the list of zeros has length zero
unit_length(vec) == vec # ZeroVec

\* C24: every vector generate_embedding returns, from the cache, from the model
\* or from the except branch, is unit length and has the dimension of the
\* loaded model.
C24_UnitLengthModelDimension ==
    embed_calls > 0 =>
        /\ unit_length(last_call.result)
        /\ vector_dim(last_call.result, embedding_model) = embedding_model.dim

----------------------------------------------------------------------------
(* ai_agent.py: SmartRelevanceChecker.check_relevance.  A query is a         *)
(* sequence of characters.  The keyword tables are samples of the source's   *)
(* tables over a small alphabet: "ms" stands for an allow-list term such as  *)
(* the word for mattress, "m" for the deny-list term that is contained in    *)
(* it (the word for mat), "h" for an ambiguous term; "s" alone is in no      *)
(* table and "M" is an upper-case letter.                                    *)

MaxQueryLen == 3

MaxRelevanceCalls == 2

QueryChars == {" ", "m", "M", "s", "h"}

RECURSIVE StringsUpTo(_, _)
StringsUpTo(chars, n) ==
    IF n = 0 THEN {<<>>}
    ELSE LET shorter == StringsUpTo(chars, n - 1)
         IN  shorter \cup {Append(t, c) : t \in shorter, c \in chars}

Queries == StringsUpTo(QueryChars, MaxQueryLen)

certain_keywords == {<<"m", "s">>}

irrelevant_keywords == {<<"m">>}

ambiguous_keywords == {<<"h">>}

\* what the collaborator may answer: JSON with "relevant" true or false, JSON
\* with "relevant" false and a list as its "reason", JSON without the
\* "relevant" key, plain text with or without the word "true", or a failure
RelevanceReplies == {"json_true", "json_false", "json_false_reason_list",
                     "json_no_key", "text_true", "text_other", "fail"}

\* str.lower()
py_lower(s) == [i \in DOMAIN s |-> IF s[i] = "M" THEN "m" ELSE s[i]]

\* keyword in query_clean
contains(s, keyword) ==
    \E i \in 1..(Len(s) - Len(keyword) + 1) :
        SubSeq(s, i, i + Len(keyword) - 1) = keyword

\* any(keyword in query_clean for keyword in keywords)
any_keyword(query_clean, keywords) ==
    \E keyword \in keywords : contains(query_clean, keyword)

\* mutant: a failed request is taken as an acceptance
gpt_relevance_check_fail_accepts(reply) ==
    CASE reply = "json_true" ->
            [is_relevant |-> TRUE, reason |-> "gpt_reason", confidence |-> 85]
      [] reply = "json_false" ->
            [is_relevant |-> FALSE, reason |-> "gpt_reason", confidence |-> 85]
      [] reply = "json_false_reason_list" ->
            [is_relevant |-> FALSE, reason |-> "gpt_reason_list", confidence |-> 85]
      [] reply = "json_no_key" ->
            [is_relevant |-> FALSE, reason |-> "gpt_reason", confidence |-> 85]
      [] reply = "text_true" ->
            [is_relevant |-> TRUE, reason |-> "gpt_text", confidence |-> 75]
      [] reply = "text_other" ->
            [is_relevant |-> FALSE, reason |-> "gpt_text", confidence |-> 75]
      [] OTHER ->
            [is_relevant |-> TRUE, reason |-> "gpt_failed", confidence |-> 60]

\* _gpt_relevance_check: the collaborator's answer as a result
gpt_relevance_check(reply) ==
    CASE reply = "json_true" ->
            [is_relevant |-> TRUE, reason |-> "gpt_reason", confidence |-> 85]
      [] reply = "json_false" ->
            [is_relevant |-> FALSE, reason |-> "gpt_reason", confidence |-> 85]
      [] reply = "json_false_reason_list" ->
            [is_relevant |-> FALSE, reason |-> "gpt_reason_list", confidence |-> 85]
      [] reply = "json_no_key" ->
            [is_relevant |-> FALSE, reason |-> "gpt_reason", confidence |-> 85]
      [] reply = "text_true" ->
            [is_relevant |-> TRUE, reason |-> "gpt_text", confidence |-> 75]
      [] reply = "text_other" ->
            [is_relevant |-> FALSE, reason |-> "gpt_text", confidence |-> 75]
      [] OTHER ->
            [is_relevant |-> FALSE, reason |-> "gpt_failed", confidence |-> 60]

\* mutant: the deny-list is looked at before the allow-list
keyword_tier_deny_first(query_clean) ==
    IF any_keyword(query_clean, irrelevant_keywords) THEN "irrelevant_keywords"
    ELSE IF any_keyword(query_clean, certain_keywords) THEN "certain_keywords"
    ELSE IF any_keyword(query_clean, ambiguous_keywords) THEN "ambiguous"
    ELSE "none"

\* the keyword steps of check_relevance in their order: allow-list,
\* deny-list, ambiguous list
keyword_tier(query_clean) ==
    IF any_keyword(query_clean, certain_keywords) THEN "certain_keywords"
    ELSE IF any_keyword(query_clean, irrelevant_keywords) THEN "irrelevant_keywords"
    ELSE IF any_keyword(query_clean, ambiguous_keywords) THEN "ambiguous"
    ELSE "none"

\* mutant: no query is too short
too_short_never(query) == FALSE

\* len(query.strip()) < 3
too_short(query) == Len(py_strip(query, Whitespace)) < 3

\* mutant: a rejection that came from a failed request is not stored
store_result_unless_failed(c, query_clean, result) ==
    IF result.reason = "gpt_failed" THEN c
    ELSE [k \in (DOMAIN c) \cup {query_clean} |->
             IF k = query_clean THEN result ELSE c[k]]

\* self.cache[query_clean] = result
store_result(c, query_clean, result) ==
    [k \in (DOMAIN c) \cup {query_clean} |->
        IF k = query_clean THEN result ELSE c[k]]

\* check_relevance: the new cache, the result and what was done
check_relevance(c, query, has_client, reply) ==
    LET query_clean == py_strip(py_lower(query), Whitespace)
        tier == keyword_tier(query_clean)
        gpt == gpt_relevance_check(reply)
        out(result, invoked) ==
            [cache |-> store_result(c, query_clean, result), result |-> result,
             cached |-> FALSE, gpt_invoked |-> invoked]
    IN  IF query_clean \in DOMAIN c
        THEN [cache |-> c, result |-> c[query_clean],
              cached |-> TRUE, gpt_invoked |-> FALSE]
        ELSE IF too_short(query)
        THEN out([is_relevant |-> FALSE, reason |-> "too_short",
                  confidence |-> 95, method |-> "length_check"], FALSE)
        ELSE IF tier = "certain_keywords"
        THEN out([is_relevant |-> TRUE, reason |-> "certain_keyword",
                  confidence |-> 95, method |-> "certain_keywords"], FALSE)
        ELSE IF tier = "irrelevant_keywords"
        THEN out([is_relevant |-> FALSE, reason |-> "irrelevant_keyword",
                  confidence |-> 90, method |-> "irrelevant_keywords"], FALSE)
        ELSE IF tier = "ambiguous" /\ has_client
        THEN out([is_relevant |-> gpt.is_relevant, reason |-> gpt.reason,
                  confidence |-> gpt.confidence, method |-> "gpt_check"], TRUE)
        ELSE out([is_relevant |-> FALSE, reason |-> "unconfirmed",
                  confidence |-> 70, method |-> "conservative_fallback"], FALSE)

RelevanceInit ==
    /\ FusionIdle
    /\ LoaderIdle
    /\ RoundTripIdle
    /\ EmbedIdle
    /\ StoreIdle
    /\ AgentIdle
    /\ NormIdle
    /\ KeywordIdle
    /\ IdIdle
    /\ SynonymIdle
    /\ SystemIdle
    /\ relevance_client \in BOOLEAN
    /\ relevance_cache = <<>>
    /\ relevance_calls = 0
    /\ last_check = NoCheck

CheckRelevance ==
    /\ relevance_calls < MaxRelevanceCalls
    /\ \E query \in Queries, reply \in RelevanceReplies :
          LET r == check_relevance(relevance_cache, query, relevance_client, reply)
          IN  /\ relevance_cache' = r.cache
              /\ last_check' = [query |-> query, cached |-> r.cached,
                                gpt_invoked |-> r.gpt_invoked,
                                reply |-> IF r.gpt_invoked THEN reply ELSE "none",
                                result |-> r.result]
    /\ relevance_calls' = relevance_calls + 1
    /\ UNCHANGED relevance_client
    /\ UNCHANGED <<fusionVars, loaderVars, roundTripVars, embedVars, storeVars, agentVars,
                   normVars, kwVars,
                   idVars,
                   synVars,
                   sysVars>>

RelevanceNext == CheckRelevance

SpecRelevance == RelevanceInit /\ [][RelevanceNext]_vars

----------------------------------------------------------------------------
(* Claims about the relevance gate                                           *)

\* the last call was made and its query was not in the cache
UncachedCheck == relevance_calls > 0 /\ ~last_check.cached

\* the query as the keyword tables are matched against it: lower-cased, trimmed
LastClean == py_strip(py_lower(last_check.query), Whitespace)

LastTrimmedLen == Len(py_strip(last_check.query, Whitespace))

HasTerm(keywords) == \E keyword \in keywords : contains(LastClean, keyword)

Rejected == ~last_check.result.is_relevant /\ ~last_check.gpt_invoked

Accepted == last_check.result.is_relevant /\ ~last_check.gpt_invoked

\* what the collaborator said: relevant or not, and not relevant when the
\* request failed
Judgment(reply) == reply \in {"json_true", "text_true"}

GptFailed == UncachedCheck /\ last_check.gpt_invoked /\ last_check.reply = "fail"

\* the collaborator was asked in the last call, and answered
GptAnswered == UncachedCheck /\ last_check.gpt_invoked /\ last_check.reply # "fail"

\* the method reported for an ambiguous query the collaborator answered
AnsweredMethod ==
    check_relevance(<<>>, <<"h", "h", "h">>, TRUE, "json_true").result.method

\* C11 (as stated): a failed collaborator call gives a rejection whose method
\* differs from the method reported when the collaborator answered.
C11_FailureMethodDistinct ==
    GptFailed =>
        /\ ~last_check.result.is_relevant
        /\ last_check.result.method # AnsweredMethod

\* C11: a failed collaborator call gives a rejection with method
\* 'gpt_check', the method also reported when the collaborator answered; the
\* failure shows in the confidence only, 0.60 against 0.85 or 0.75 for an
\* answer, and the rejection is cached like any other result.
C11_FailureRejectsAsGptCheck ==
    /\ GptFailed =>
          /\ ~last_check.result.is_relevant
          /\ last_check.result.method = "gpt_check"
          /\ last_check.result.method = AnsweredMethod
          /\ last_check.result.confidence = 60
          /\ LastClean \in DOMAIN relevance_cache
          /\ relevance_cache[LastClean] = last_check.result
    /\ GptAnswered =>
          /\ last_check.result.method = "gpt_check"
          /\ last_check.result.confidence \in {75, 85}

\* the collaborator was asked about an ambiguous query and the request failed
C11_Witness ==
    /\ GptFailed
    /\ HasTerm(ambiguous_keywords)
    /\ relevance_client

----------------------------------------------------------------------------
(* ai_agent.py: EnhancedMattressAIAgent.process_query on a ready agent.  The *)
(* stages after the relevance check are kept to what they return to          *)
(* process_query.                                                            *)

MaxAgentCalls == 2

\* sample queries: too short; allow-list and deny-list term; deny-list term
\* only; ambiguous term only; no term of any table
AgentQueries == {<<"m">>, <<"m", "s", "h">>, <<"m", "m", "m">>,
                 <<"h", "h", "h">>, <<"s", "s", "s">>}

\* the furniture terms of get_irrelevant_response, which are deny-list terms
furniture_keywords == {<<"m">>}

\* what intent analysis may return: no budget, a budget, or JSON whose
\* budget_info is not an object
Intents == {"no_budget", "budget", "budget_info_not_dict"}

\* what search_mattresses may return
SearchOutcomes == {<<>>, <<"mattress_a">>}

\* get_irrelevant_response: the canned message, by kind; the lookup of the
\* reason in the message table raises for a reason that is a list
get_irrelevant_response(query, reason) ==
    IF any_keyword(py_lower(query), furniture_keywords)
    THEN [raised |-> FALSE, message |-> "furniture_guidance"]
    ELSE IF reason = "gpt_reason_list"
    THEN [raised |-> TRUE, message |-> "none"]
    ELSE IF reason \in {"too_short", "irrelevant_keyword", "gpt_failed", "unconfirmed"}
    THEN [raised |-> FALSE, message |-> reason \o "_guidance"]
    ELSE [raised |-> FALSE, message |-> "default_guidance"]

\* the dict of the except branch of process_query
ErrorResult == [kind |-> "error", success |-> FALSE, search_results |-> <<>>,
                filtered_question |-> FALSE]

\* ConversationManager.add_interaction
add_interaction(h, search_results, filtered_question) ==
    Append(h, [search_results_count |-> Len(search_results),
               filtered_question |-> filtered_question])

AgentInit ==
    /\ FusionIdle
    /\ LoaderIdle
    /\ RoundTripIdle
    /\ EmbedIdle
    /\ StoreIdle
    /\ AgentIdle
    /\ NormIdle
    /\ KeywordIdle
    /\ IdIdle
    /\ SynonymIdle
    /\ SystemIdle
    /\ relevance_client \in BOOLEAN
    /\ relevance_cache = <<>>
    /\ relevance_calls = 0
    /\ last_check = NoCheck

\* process_query is called: step 0, the relevance check
ProcessQuery ==
    /\ agent_pc \in {"idle", "returned"}
    /\ agent_calls < MaxAgentCalls
    /\ \E query \in AgentQueries, reply \in RelevanceReplies :
          LET r == check_relevance(relevance_cache, query, relevance_client, reply)
          IN  /\ relevance_cache' = r.cache
              /\ last_check' = [query |-> query, cached |-> r.cached,
                                gpt_invoked |-> r.gpt_invoked,
                                reply |-> IF r.gpt_invoked THEN reply ELSE "none",
                                result |-> r.result]
              /\ agent_query' = query
              /\ agent_pc' = IF r.result.is_relevant THEN "intent" ELSE "filtered"
    /\ relevance_calls' = relevance_calls + 1
    /\ agent_calls' = agent_calls + 1
    /\ stages_invoked' = {}
    /\ agent_result' = NoAgentResult
    /\ UNCHANGED <<relevance_client, history>>
    /\ UNCHANGED <<fusionVars, loaderVars, roundTripVars, embedVars, storeVars,
                   normVars, kwVars,
                   idVars,
                   synVars,
                   sysVars>>

\* the query is not relevant: the guidance message is made, the interaction
\* recorded and the filtered result returned; an exception gives the error
\* result
ReturnGuidance ==
    /\ agent_pc = "filtered"
    /\ LET g == get_irrelevant_response(agent_query, last_check.result.reason)
       IN  IF g.raised
           THEN /\ agent_result' = ErrorResult
                /\ UNCHANGED history
           ELSE /\ agent_result' = [kind |-> g.message, success |-> TRUE,
                                    search_results |-> <<>>,
                                    filtered_question |-> TRUE]
                /\ history' = add_interaction(history, <<>>, TRUE)
    /\ agent_pc' = "returned"
    /\ UNCHANGED <<agent_query, agent_calls, stages_invoked>>
    /\ UNCHANGED <<fusionVars, loaderVars, roundTripVars, embedVars, storeVars,
                   relevanceVars, normVars, kwVars,
                   idVars,
                   synVars,
                   sysVars>>

\* steps 1 to 4: intent analysis, query expansion, search and response
\* generation; a budget_info that is not an object raises before the search
RunPipeline ==
    /\ agent_pc = "intent"
    /\ \E user_intent \in Intents, search_results \in SearchOutcomes :
          IF user_intent = "budget_info_not_dict"
          THEN /\ stages_invoked' = {"intent", "expansion"}
               /\ agent_result' = ErrorResult
               /\ UNCHANGED history
          ELSE /\ stages_invoked' = {"intent", "expansion", "search", "response"}
               /\ agent_result' = [kind |-> "recommendation", success |-> TRUE,
                                   search_results |-> search_results,
                                   filtered_question |-> FALSE]
               /\ history' = add_interaction(history, search_results, FALSE)
    /\ agent_pc' = "returned"
    /\ UNCHANGED <<agent_query, agent_calls>>
    /\ UNCHANGED <<fusionVars, loaderVars, roundTripVars, embedVars, storeVars,
                   relevanceVars, normVars, kwVars,
                   idVars,
                   synVars,
                   sysVars>>

AgentNext == ProcessQuery \/ ReturnGuidance \/ RunPipeline

SpecAgent == AgentInit /\ [][AgentNext]_vars

----------------------------------------------------------------------------
(* Claims about process_query                                                *)

\* the call has returned and its relevance check reported the query as not
\* relevant
ReturnedNotRelevant ==
    /\ agent_pc = "returned"
    /\ agent_calls > 0
    /\ ~last_check.result.is_relevant

GuidanceKinds == {"furniture_guidance", "too_short_guidance",
                  "irrelevant_keyword_guidance", "gpt_failed_guidance",
                  "unconfirmed_guidance", "default_guidance"}

\* C12: a call whose relevance check reports the query as not relevant
\* returns the canned guidance message with success true and empty
\* search_results, and invokes no stage of the pipeline.
C12_RejectedShortCircuits ==
    ReturnedNotRelevant =>
        /\ agent_result.kind \in GuidanceKinds
        /\ agent_result.success
        /\ agent_result.search_results = <<>>
        /\ stages_invoked = {}

----------------------------------------------------------------------------
(* data_loader.py: _convert_price_to_manwon and _normalize_mattress_prices.  *)
(* An input number is held in tenths; a converted price is held in units of  *)
(* 1/100000 manwon (e5), so that both branches of the conversion are exact.  *)
(* The key of a record that is absent is written "<missing>".                *)

MaxRawCatalog == 2

\* if price_value <= 1000
PriceThreshold == 1000

\* price_value / 10000
WonPerManwon == 10000

Missing == "<missing>"

NumPrice(tenths) == [kind |-> "num", tenths |-> tenths, chars |-> <<>>]

StrPrice(chars) == [kind |-> "str", tenths |-> 0, chars |-> chars]

OtherPrice(kind) == [kind |-> kind, tenths |-> 0, chars |-> <<>>]

\* numbers as prices: 0, 0.5, 500, 1000, 1000.5, 1001, 500000, 10000000 and
\* 10000001
NumberPrices == {NumPrice(t) : t \in {0, 5, 5000, 10000, 10005, 10010, 5000000,
                                      100000000, 100000010}}

\* strings as prices, "w" standing for a currency suffix: "500000",
\* "500,000w", "50w", "1,000", "5.5", "5.0.5", "w", "." and ""
StringPrices ==
    {StrPrice(c) : c \in {<<"5", "0", "0", "0", "0", "0">>,
                          <<"5", "0", "0", ",", "0", "0", "0", "w">>,
                          <<"5", "0", "w">>,
                          <<"1", ",", "0", "0", "0">>,
                          <<"5", ".", "5">>,
                          <<"5", ".", "0", ".", "5">>,
                          <<"w">>, <<".">>, <<>>}}

\* None, no price key at all, a list, and NaN
PriceInputs == NumberPrices \cup StringPrices
               \cup {OtherPrice("none"), OtherPrice(Missing), OtherPrice("list"),
                     OtherPrice("nan")}

IsDigit(c) == c \in Digits

IsDigitOrDot(c) == c \in Digits \cup {"."}

IsDot(c) == c = "."

DigitValue(c) == CHOOSE d \in 0..9 : DigitChars[d + 1] = c

\* the value of a string of digits
RECURSIVE digits_value(_)
digits_value(s) ==
    IF s = <<>> THEN 0
    ELSE digits_value(SubSeq(s, 1, Len(s) - 1)) * 10 + DigitValue(s[Len(s)])

\* float(s) succeeds: digits with at most one dot, and a digit somewhere
is_float_literal(s) ==
    /\ SelectSeq(s, IsDigit) # <<>>
    /\ SelectSeq(s, IsDigitOrDot) = s
    /\ Len(SelectSeq(s, IsDot)) <= 1

\* float(s) in tenths, for a literal with at most one digit after the dot
float_tenths(s) ==
    LET dot == IF \E i \in DOMAIN s : s[i] = "."
               THEN CHOOSE i \in DOMAIN s : s[i] = "." ELSE Len(s) + 1
        whole == SubSeq(s, 1, dot - 1)
        frac == SubSeq(s, dot + 1, Len(s))
    IN  digits_value(whole) * 10 + (IF frac = <<>> THEN 0 ELSE DigitValue(frac[1]))

\* mutant: the threshold itself is taken as a price in won
threshold_rule_exclusive(tenths) ==
    IF tenths < PriceThreshold * 10 THEN tenths * WonPerManwon ELSE tenths

\* price_value <= 1000 is returned as it is, a larger one divided by 10000
threshold_rule(tenths) ==
    IF tenths <= PriceThreshold * 10 THEN tenths * WonPerManwon ELSE tenths

Converted(e5) == [kind |-> "num", e5 |-> e5]

\* _convert_price_to_manwon
convert_price_to_manwon(price_won) ==
    CASE price_won.kind = "str" ->
            LET kept == SelectSeq(price_won.chars, IsDigitOrDot)
            IN  IF kept = <<>> THEN Converted(threshold_rule(0))
                ELSE IF is_float_literal(kept)
                THEN Converted(threshold_rule(float_tenths(kept)))
                ELSE Converted(0)
      [] price_won.kind = "num" -> Converted(threshold_rule(price_won.tenths))
      [] price_won.kind = "nan" -> [kind |-> "nan", e5 |-> 0]
      [] OTHER -> Converted(0)

\* bool(original_price)
price_truthy(p) ==
    CASE p.kind = "num" -> p.tenths # 0
      [] p.kind = "str" -> p.chars # <<>>
      [] p.kind \in {"list", "nan"} -> TRUE
      [] OTHER -> FALSE

\* int(float(original_price)) if original_price else 0: the value, or a raise
price_won_of(p) ==
    IF ~price_truthy(p) THEN [raised |-> FALSE, value |-> 0]
    ELSE IF p.kind = "num" THEN [raised |-> FALSE, value |-> p.tenths \div 10]
    ELSE IF p.kind = "str" /\ is_float_literal(p.chars)
    THEN [raised |-> FALSE, value |-> float_tenths(p.chars) \div 10]
    ELSE [raised |-> TRUE, value |-> 0]

\* the number shown in price_display: int(price) from 100 on, else
\* int(round(price))
price_display_of(e5) ==
    LET q == e5 \div 100000
        r == e5 % 100000
    IN  IF q >= 100 THEN q
        ELSE IF r > 50000 \/ (r = 50000 /\ q % 2 = 1) THEN q + 1 ELSE q

Placeholder(field) ==
    CASE field = "name" -> "Unknown Mattress"
      [] field = "brand" -> "Unknown Brand"
      [] field = "type" -> "Unknown Type"

\* the record appended by the except branch
default_mattress ==
    [name |-> "Unknown Mattress", brand |-> "Unknown Brand", type |-> "Unknown Type",
     price |-> 0, price_won |-> 0, price_display |-> 0, x |-> Missing]

\* if field not in record or not record[field]
ensure_field(value, field) ==
    IF value = Missing \/ value = "" THEN Placeholder(field) ELSE value

\* the price a record hands to the conversion: mattress.get('price', 0)
original_price_of(mattress) ==
    IF mattress.price.kind = Missing THEN NumPrice(0) ELSE mattress.price

\* one pass of the loop body of _normalize_mattress_prices
normalize_one(mattress) ==
    IF ~mattress.is_dict THEN default_mattress
    ELSE LET original_price == original_price_of(mattress)
             price_manwon == convert_price_to_manwon(original_price)
             won == price_won_of(original_price)
         IN  IF won.raised \/ price_manwon.kind = "nan" THEN default_mattress
             ELSE [name |-> ensure_field(mattress.name, "name"),
                   brand |-> ensure_field(mattress.brand, "brand"),
                   type |-> ensure_field(mattress.type, "type"),
                   price |-> price_manwon.e5,
                   price_won |-> won.value,
                   price_display |-> price_display_of(price_manwon.e5),
                   x |-> mattress.x]

RawRec(name, brand, type, price) ==
    [is_dict |-> TRUE, name |-> name, brand |-> brand, type |-> type,
     price |-> price, x |-> "kept"]

NotADict ==
    [is_dict |-> FALSE, name |-> Missing, brand |-> Missing, type |-> Missing,
     price |-> OtherPrice(Missing), x |-> Missing]

\* sample records: complete, or with one of name, brand and type absent or
\* empty, with every sample price; and an entry that is not an object
RawRecords ==
    {RawRec(f[1], f[2], f[3], p) :
        f \in {<<"N", "B", "T">>, <<Missing, "B", "T">>, <<"N", "", "T">>,
               <<"N", "B", Missing>>},
        p \in PriceInputs}
    \cup {NotADict}

RawCatalogs == UNION {[1..n -> RawRecords] : n \in 0..MaxRawCatalog}

NormInit ==
    /\ FusionIdle
    /\ LoaderIdle
    /\ RoundTripIdle
    /\ EmbedIdle
    /\ StoreIdle
    /\ RelevanceIdle
    /\ AgentIdle
    /\ KeywordIdle
    /\ IdIdle
    /\ SynonymIdle
    /\ SystemIdle
    /\ raw_mattresses \in RawCatalogs
    /\ norm_pc = "loop"
    /\ norm_idx = 1
    /\ normalized_mattresses = <<>>
    /\ prices_converted = <<>>

\* for mattress in mattresses: one record is normalised and appended
NormalizeRecord ==
    /\ norm_pc = "loop"
    /\ norm_idx <= Len(raw_mattresses)
    /\ normalized_mattresses' =
          Append(normalized_mattresses, normalize_one(raw_mattresses[norm_idx]))
    /\ prices_converted' =
          Append(prices_converted,
                 convert_price_to_manwon(original_price_of(raw_mattresses[norm_idx])))
    /\ norm_idx' = norm_idx + 1
    /\ UNCHANGED <<raw_mattresses, norm_pc>>
    /\ UNCHANGED <<fusionVars, loaderVars, roundTripVars, embedVars, storeVars,
                   relevanceVars, agentVars, kwVars,
                   idVars,
                   synVars,
                   sysVars>>

\* return normalized_mattresses
NormalizeReturn ==
    /\ norm_pc = "loop"
    /\ norm_idx > Len(raw_mattresses)
    /\ norm_pc' = "done"
    /\ UNCHANGED <<raw_mattresses, norm_idx, normalized_mattresses, prices_converted>>
    /\ UNCHANGED <<fusionVars, loaderVars, roundTripVars, embedVars, storeVars,
                   relevanceVars, agentVars, kwVars,
                   idVars,
                   synVars,
                   sysVars>>

NormNext == NormalizeRecord \/ NormalizeReturn

SpecNormalize == NormInit /\ [][NormNext]_vars

----------------------------------------------------------------------------
(* rag_system.py: EnhancedKoreanTextPreprocessor.normalize_text and          *)
(* extract_weighted_keywords.  A text is a sequence of characters over a     *)
(* small alphabet: "#" is a character the first substitution removes, "5" a  *)
(* digit, "M" and "W" the two syllables of the word for ten thousand won;    *)
(* the tables are samples of the source's: "n" stands for the one-syllable   *)
(* health keyword (neck), "hh" for a two-syllable one, "hn" for a keyword of *)
(* lower weight, "e" and "ee" for stop-words.  Weights are in tenths.        *)

MaxTextLen == 5

TextChars == {" ", "#", "n", "h", "e", "5", "M", "W"}

Texts == StringsUpTo(TextChars, MaxTextLen)

stopwords == {<<"e">>, <<"e", "e">>}

KeywordTable == {<<"n">>, <<"h", "h">>, <<"h", "n">>}

\* self.keyword_weights.get(word, 1.0)
keyword_weight(word) ==
    CASE word = <<"n">> -> 50
      [] word = <<"h", "h">> -> 50
      [] word = <<"h", "n">> -> 30
      [] OTHER -> 10

\* re.sub(r'[^\w\s...]', ' ', text): every other character becomes a space
sub_disallowed(s) == [i \in DOMAIN s |-> IF s[i] = "#" THEN " " ELSE s[i]]

\* re.sub(r'\s+', ' ', text)
RECURSIVE collapse_spaces(_)
collapse_spaces(s) ==
    IF Len(s) < 2 THEN s
    ELSE IF s[1] \in Whitespace /\ s[2] \in Whitespace
         THEN collapse_spaces(Tail(s))
         ELSE <<s[1]>> \o collapse_spaces(Tail(s))

\* the position after the longest run of characters of the set from i on
RECURSIVE skip_run(_, _, _)
skip_run(s, i, chars) ==
    IF i <= Len(s) /\ s[i] \in chars THEN skip_run(s, i + 1, chars) ELSE i

\* re.sub(r'(\d+)\s*M\s*W', r'\1MW', text), from position i on
RECURSIVE sub_manwon_from(_, _)
sub_manwon_from(s, i) ==
    IF i > Len(s) THEN <<>>
    ELSE LET d == skip_run(s, i, Digits)
             m == skip_run(s, d, Whitespace)
             w == skip_run(s, m + 1, Whitespace)
         IN  IF d > i /\ m <= Len(s) /\ s[m] = "M" /\ w <= Len(s) /\ s[w] = "W"
             THEN SubSeq(s, i, d - 1) \o <<"M", "W">> \o sub_manwon_from(s, w + 1)
             ELSE <<s[i]>> \o sub_manwon_from(s, i + 1)

\* normalize_text
normalize_text(text) ==
    IF text = <<>> THEN <<>>
    ELSE py_strip(sub_manwon_from(collapse_spaces(sub_disallowed(
                      py_strip(text, Whitespace))), 1), Whitespace)

\* str.split(): the runs of characters that are not whitespace
RECURSIVE py_split_from(_, _)
py_split_from(s, i) ==
    LET start == skip_run(s, i, Whitespace)
        stop == skip_run(s, start, TextChars \ Whitespace)
    IN  IF start > Len(s) THEN <<>>
        ELSE <<SubSeq(s, start, stop - 1)>> \o py_split_from(s, stop)

py_split(s) == py_split_from(s, 1)

\* sorted(..., key=weight, reverse=True): stable, weight descending
RECURSIVE insert_by_weight(_, _)
insert_by_weight(sorted, x) ==
    IF sorted = <<>> THEN <<x>>
    ELSE IF sorted[Len(sorted)][2] >= x[2]
         THEN Append(sorted, x)
         ELSE Append(insert_by_weight(SubSeq(sorted, 1, Len(sorted) - 1), x),
                     sorted[Len(sorted)])

RECURSIVE sorted_by_weight_from(_, _, _)
sorted_by_weight_from(sorted, seq, i) ==
    IF i > Len(seq) THEN sorted
    ELSE sorted_by_weight_from(insert_by_weight(sorted, seq[i]), seq, i + 1)

\* if len(word) > 1 and word not in self.stopwords
is_keyword(word) == Len(word) > 1 /\ word \notin stopwords

\* extract_weighted_keywords
extract_weighted_keywords(text) ==
    LET words == py_split(normalize_text(text))
        kept == SelectSeq(words, is_keyword)
        pairs == [i \in DOMAIN kept |-> <<kept[i], keyword_weight(kept[i])>>]
    IN  sorted_by_weight_from(<<>>, pairs, 1)

KeywordInit ==
    /\ FusionIdle
    /\ LoaderIdle
    /\ RoundTripIdle
    /\ EmbedIdle
    /\ StoreIdle
    /\ RelevanceIdle
    /\ AgentIdle
    /\ NormIdle
    /\ IdIdle
    /\ SynonymIdle
    /\ SystemIdle
    /\ kw_pc = "ready"
    /\ kw_text \in Texts
    /\ weighted_keywords = <<>>

ExtractWeightedKeywords ==
    /\ kw_pc = "ready"
    /\ weighted_keywords' = extract_weighted_keywords(kw_text)
    /\ kw_pc' = "done"
    /\ UNCHANGED kw_text
    /\ UNCHANGED <<fusionVars, loaderVars, roundTripVars, embedVars, storeVars,
                   relevanceVars, agentVars, normVars,
                   idVars,
                   synVars,
                   sysVars>>

KeywordNext == ExtractWeightedKeywords

SpecKeywords == KeywordInit /\ [][KeywordNext]_vars

----------------------------------------------------------------------------
(* Claims about the weighted keywords                                        *)

\* the tokens of the normalised text
TextTokens == py_split(normalize_text(kw_text))

NotStopword(word) == word \notin stopwords

Words(pairs) == [i \in DOMAIN pairs |-> pairs[i][1]]

\* C20: the list holds every token of the normalised text that is not a
\* stop-word, with its table weight or 1.0, weights non-increasing, tokens of
\* equal weight in text order; no token with a table weight is left out.
C20_EveryNonStopwordToken ==
    kw_pc = "done" =>
        /\ \A i \in DOMAIN weighted_keywords :
              weighted_keywords[i][2]
                 = (IF weighted_keywords[i][1] \in KeywordTable
                    THEN keyword_weight(weighted_keywords[i][1]) ELSE 10)
        /\ \A i, j \in DOMAIN weighted_keywords :
              i < j => weighted_keywords[i][2] >= weighted_keywords[j][2]
        /\ \A w \in {10, 30, 50} :
              LET HasWeight(word) == keyword_weight(word) = w
              IN  SelectSeq(Words(weighted_keywords), HasWeight)
                    = SelectSeq(SelectSeq(TextTokens, NotStopword), HasWeight)
        /\ \A i \in DOMAIN TextTokens :
              (TextTokens[i] \in KeywordTable /\ NotStopword(TextTokens[i]))
                 => \E j \in DOMAIN weighted_keywords :
                        weighted_keywords[j][1] = TextTokens[i]

----------------------------------------------------------------------------
(* data_loader.py: _sanitize_id and _generate_unique_id called on their own, *)
(* with identifiers as long as the length cap and with sets of existing ids  *)
(* as large as the suffix loop allows.                                       *)

MaxFill == 100

MaxTail == 30

Rep(c, n) == [i \in 1..n |-> c]

FillLengths == {0, 1, IdKeep - 2, IdKeep - 1, MaxIdLen - 9, MaxIdLen - 1, MaxFill}

\* raw ids: a short head, a run of letters, separators, a second run
RawIds ==
    { head \o Rep("a", n) \o mid \o Rep("b", m) :
        head \in {<<>>, <<"1">>, <<"-">>, <<" ">>},
        n \in FillLengths,
        mid \in {<<>>, <<"-">>, <<"-", "/">>},
        m \in {0, 1, MaxTail} }

IdRecords == { Rec(<<"A">>, <<"x">>), Rec(<<"B">>, <<"y", " ", "1">>) }

\* the ids an earlier run of suffixes has taken: the sanitized id and its
\* suffixes _1 .. _n
Suffixed(sanitized, n) ==
    {sanitized} \cup {suffixed_id(sanitized, k) : k \in 1..n}

\* sets of existing ids for a record: none, other ids, the sanitized id with
\* some of its suffixes, and what the loader holds after it was given the same
\* name and brand more often than the loop has attempts
ExistingFor(mattress) ==
    LET sanitized == sanitize_id(base_id_of(mattress))
        taken == Suffixed(sanitized, MaxSuffixAttempts - 1)
    IN  {{}, {<<"m">>}}
        \cup {Suffixed(sanitized, n) :
                n \in {0, 1, 2, MaxSuffixAttempts - 2, MaxSuffixAttempts - 1}}
        \cup {taken \cup {hash_id(base_id_of(mattress), MaxSuffixAttempts + 1)}}

IdInit ==
    /\ FusionIdle
    /\ LoaderIdle
    /\ RoundTripIdle
    /\ EmbedIdle
    /\ StoreIdle
    /\ RelevanceIdle
    /\ AgentIdle
    /\ NormIdle
    /\ KeywordIdle
    /\ SynonymIdle
    /\ SystemIdle
    /\ id_pc = "ready"
    /\ id_raw = <<>>
    /\ id_sanitized = <<>>
    /\ id_record = <<>>
    /\ id_existing = {}
    /\ id_unique = <<>>
    /\ id_counter = 1

SanitizeId ==
    /\ id_pc = "ready"
    /\ \E raw \in RawIds :
        /\ id_raw' = raw
        /\ id_sanitized' = sanitize_id(raw)
    /\ id_pc' = "sanitized"
    /\ UNCHANGED <<id_record, id_existing, id_unique, id_counter>>
    /\ UNCHANGED <<fusionVars, loaderVars, roundTripVars, embedVars, storeVars,
                   relevanceVars, agentVars, normVars, kwVars,
                   synVars,
                   sysVars>>

\* _generate_unique_id up to the while loop
BeginUniqueId ==
    /\ id_pc = "ready"
    /\ \E mattress \in IdRecords :
        \E existing \in ExistingFor(mattress) :
            /\ id_record' = mattress
            /\ id_existing' = existing
            /\ id_unique' = sanitize_id(base_id_of(mattress))
    /\ id_counter' = 1
    /\ id_pc' = "loop"
    /\ UNCHANGED <<id_raw, id_sanitized>>
    /\ UNCHANGED <<fusionVars, loaderVars, roundTripVars, embedVars, storeVars,
                   relevanceVars, agentVars, normVars, kwVars,
                   synVars,
                   sysVars>>

\* one run of the body of the while loop
UniqueIdAttempt ==
    /\ id_pc = "loop"
    /\ id_unique \in id_existing
    /\ id_counter' = id_counter + 1
    /\ IF id_counter + 1 > MaxSuffixAttempts
       THEN /\ id_unique' = hash_id(base_id_of(id_record), id_counter + 1)
            /\ id_pc' = "generated"
       ELSE /\ id_unique' = suffixed_id(sanitize_id(base_id_of(id_record)),
                                        id_counter)
            /\ id_pc' = "loop"
    /\ UNCHANGED <<id_raw, id_sanitized, id_record, id_existing>>
    /\ UNCHANGED <<fusionVars, loaderVars, roundTripVars, embedVars, storeVars,
                   relevanceVars, agentVars, normVars, kwVars,
                   synVars,
                   sysVars>>

\* the loop condition is false: return final_id
UniqueIdReturn ==
    /\ id_pc = "loop"
    /\ id_unique \notin id_existing
    /\ id_pc' = "generated"
    /\ UNCHANGED <<id_raw, id_sanitized, id_record, id_existing, id_unique,
                   id_counter>>
    /\ UNCHANGED <<fusionVars, loaderVars, roundTripVars, embedVars, storeVars,
                   relevanceVars, agentVars, normVars, kwVars,
                   synVars,
                   sysVars>>

IdNext == SanitizeId \/ BeginUniqueId \/ UniqueIdAttempt \/ UniqueIdReturn

SpecIds == IdInit /\ [][IdNext]_vars

----------------------------------------------------------------------------
(* Claims about identifiers at the length cap and at the end of the suffix   *)
(* loop                                                                      *)

\* C22: whatever the input string, the identifier _sanitize_id returns is not
\* empty, does not begin with a digit, has no separator at either end, has no
\* two separators in a row and is at most MaxIdLen characters long.
C22_SanitizedIdWellFormed ==
    id_pc = "sanitized" =>
        /\ id_sanitized # <<>>
        /\ id_sanitized[1] \notin Digits
        /\ id_sanitized[1] # "_"
        /\ id_sanitized[Len(id_sanitized)] # "_"
        /\ \A i \in 1..(Len(id_sanitized) - 1) :
              ~(id_sanitized[i] = "_" /\ id_sanitized[i + 1] = "_")
        /\ Len(id_sanitized) <= MaxIdLen

\* C23: _generate_unique_id leaves its loop after at most MaxSuffixAttempts
\* runs of the loop body, and the identifier it returns is not in existing_ids.
C23_UniqueIdNotExisting ==
    /\ id_counter - 1 <= MaxSuffixAttempts
    /\ id_pc = "generated" => id_unique \notin id_existing

----------------------------------------------------------------------------
(* rag_system.py: GPTSynonymGenerator.generate_synonyms.  A keyword and a    *)
(* synonym are sequences of characters.                                      *)

MaxSynCalls == 3

SynKeywords == {<<"h", "h">>, <<"h", "n">>}

\* what the collaborator may answer to a synonym request: the request fails
\* or the answer is no JSON ("fail"), JSON that is no array ("not_list"), or
\* an array: empty, of two synonyms, of seven synonyms, or with an element
\* that is no string
SynonymReplies ==
    {"fail", "not_list", "empty_list", "short_list", "long_list", "bad_list"}

ListReplies == {"empty_list", "short_list", "long_list", "bad_list"}

\* an element of a JSON array that is no str
NonStr == <<"<7>">>

\* json.loads(content) of an array reply
reply_list(reply) ==
    CASE reply = "short_list" -> <<<<"s", "1">>, <<"s", "2">>>>
      [] reply = "long_list" ->
            <<<<"t", "1">>, <<"t", "2">>, <<"t", "3">>, <<"t", "4">>, <<"t", "5">>,
              <<"t", "6">>, <<"t", "7">>>>
      [] reply = "bad_list" -> <<<<"u", "1">>, NonStr>>
      [] OTHER -> <<>>

\* mutant: an answer that is no array is stored as an empty list
memoize_synonyms_any(c, keyword, reply) ==
    [k \in (DOMAIN c) \cup {keyword} |->
        IF k = keyword THEN reply_list(reply) ELSE c[k]]

\* the try block after the request: self.synonym_cache[keyword] = synonyms
\* when the answer is a list, nothing otherwise
memoize_synonyms(c, keyword, reply) ==
    IF reply \in ListReplies
    THEN [k \in (DOMAIN c) \cup {keyword} |->
             IF k = keyword THEN reply_list(reply) ELSE c[k]]
    ELSE c

\* generate_synonyms: the new cache, the list returned and what was done
generate_synonyms(c, keyword, has_client, reply) ==
    IF ~has_client
    THEN [cache |-> c, result |-> <<>>, asked |-> FALSE, cached |-> FALSE]
    ELSE IF keyword \in DOMAIN c
    THEN [cache |-> c, result |-> c[keyword], asked |-> FALSE, cached |-> TRUE]
    ELSE [cache |-> memoize_synonyms(c, keyword, reply),
          result |-> reply_list(reply), asked |-> TRUE, cached |-> FALSE]

SynonymInit ==
    /\ FusionIdle
    /\ LoaderIdle
    /\ RoundTripIdle
    /\ EmbedIdle
    /\ StoreIdle
    /\ RelevanceIdle
    /\ AgentIdle
    /\ NormIdle
    /\ KeywordIdle
    /\ IdIdle
    /\ SystemIdle
    /\ syn_client \in BOOLEAN
    /\ synonym_cache = <<>>
    /\ syn_calls = 0
    /\ last_synonyms = NoSynonymCall
    /\ has_generator = TRUE
    /\ enh_pc = "idle"
    /\ enh_text = <<>>
    /\ enh_lookups = <<>>
    /\ enhanced_text = NoText

\* one call generate_synonyms(keyword)
GenerateSynonyms ==
    /\ syn_calls < MaxSynCalls
    /\ \E keyword \in SynKeywords, reply \in SynonymReplies :
          LET r == generate_synonyms(synonym_cache, keyword, syn_client, reply)
          IN  /\ synonym_cache' = r.cache
              /\ last_synonyms' = [keyword |-> keyword,
                                   reply |-> IF r.asked THEN reply ELSE "none",
                                   asked |-> r.asked, cached |-> r.cached,
                                   result |-> r.result]
    /\ syn_calls' = syn_calls + 1
    /\ UNCHANGED <<syn_client, has_generator, enh_pc, enh_text, enh_lookups,
                   enhanced_text>>
    /\ UNCHANGED <<fusionVars, loaderVars, roundTripVars, embedVars, storeVars,
                   relevanceVars, agentVars, normVars, kwVars, idVars,
                   sysVars>>

SynonymNext == GenerateSynonyms

SpecSynonyms == SynonymInit /\ [][SynonymNext]_vars

----------------------------------------------------------------------------
(* Claims about the memoization of synonyms                                  *)

\* C25: once generate_synonyms(keyword) has returned a list obtained from the
\* collaborator, every later call for the keyword returns that list without
\* asking again; a request that failed or whose answer is no list stores
\* nothing, so the next call for the keyword asks again.
C25_SynonymsMemoized ==
    [][ syn_calls' = syn_calls + 1 =>
          LET call == last_synonyms'
          IN  /\ \A k \in DOMAIN synonym_cache :
                    k \in DOMAIN synonym_cache' /\ synonym_cache'[k] = synonym_cache[k]
              /\ call.keyword \in DOMAIN synonym_cache =>
                    /\ ~call.asked
                    /\ call.result = synonym_cache[call.keyword]
              /\ (call.asked /\ call.reply \in ListReplies) =>
                    /\ call.keyword \in DOMAIN synonym_cache'
                    /\ synonym_cache'[call.keyword] = call.result
              /\ (call.asked /\ call.reply \notin ListReplies) =>
                    /\ synonym_cache' = synonym_cache
                    /\ call.result = <<>>
              /\ (syn_client /\ call.keyword \notin DOMAIN synonym_cache) =>
                    call.asked ]_vars

\* a third call returned from the cache the list an earlier call for the
\* keyword had obtained, no other keyword having been stored by the calls
C25_Witness ==
    /\ syn_calls = 3
    /\ last_synonyms.cached
    /\ ~last_synonyms.asked
    /\ last_synonyms.result = reply_list("long_list")
    /\ DOMAIN synonym_cache = {last_synonyms.keyword}

----------------------------------------------------------------------------
(* rag_system.py: EnhancedKoreanTextPreprocessor.create_gpt_enhanced_text.   *)
(* The texts are made of the words of BaseWords, which the sample tables of  *)
(* the keyword extraction weigh 5.0 ("hh"), 3.0 ("hn") and 1.0, with "ee" a  *)
(* stop-word.                                                                *)

MaxWords == 7

TopKeywords == 5

TopSynonyms == 6

MaxRepeat == 3

PriorityWeight == 30

BaseWords ==
    <<<<"n", "n">>, <<"h", "h">>, <<"n", "h">>, <<"h", "n">>, <<"h", "e">>,
      <<"e", "n">>, <<"e", "e">>, <<"n", "e">>>>

\* ' '.join(parts)
RECURSIVE join_space(_)
join_space(parts) ==
    IF parts = <<>> THEN <<>>
    ELSE IF Len(parts) = 1 THEN parts[1]
    ELSE parts[1] \o <<" ">> \o join_space(Tail(parts))

\* the words of BaseWords at the positions chosen, in order, joined by blanks
RECURSIVE words_at(_, _)
words_at(positions, i) ==
    IF i > Len(BaseWords) THEN <<>>
    ELSE IF i \in positions THEN <<BaseWords[i]>> \o words_at(positions, i + 1)
    ELSE words_at(positions, i + 1)

EnhanceTexts == {join_space(words_at(positions, 1)) : positions \in SUBSET (1..MaxWords)}

\* answers of the collaborator to the lookups of one call (a list of fewer than
\* six synonyms is what the cache may hold at the start)
EnhanceReplies == {"fail", "long_list", "bad_list"}

\* mutant: the repeat count is not capped
repeat_count_uncapped(weight10) == weight10 \div 10

\* repeat_count = min(int(weight), 3)
repeat_count(weight10) == Min(weight10 \div 10, MaxRepeat)

\* synonyms[:6]
selected_synonyms(synonyms) == SubSeq(synonyms, 1, Min(TopSynonyms, Len(synonyms)))

\* for _ in range(repeat_count): enhanced_parts.extend(selected_synonyms)
RECURSIVE extend_times(_, _)
extend_times(selected, n) ==
    IF n <= 0 THEN <<>> ELSE selected \o extend_times(selected, n - 1)

\* the loop over weighted_keywords[:5], from the i-th keyword on: the cache
\* after it, the parts it appended and the lookups it made
RECURSIVE synonym_loop(_, _, _, _, _)
synonym_loop(weighted, i, c, has_client, replies) ==
    IF i > Min(TopKeywords, Len(weighted))
    THEN [cache |-> c, parts |-> <<>>, lookups |-> <<>>]
    ELSE LET r == generate_synonyms(c, weighted[i][1], has_client, replies[i])
             rest == synonym_loop(weighted, i + 1, r.cache, has_client, replies)
             added == IF r.result # <<>>
                      THEN extend_times(selected_synonyms(r.result),
                                        repeat_count(weighted[i][2]))
                      ELSE <<>>
         IN  [cache |-> rest.cache,
              parts |-> added \o rest.parts,
              lookups |-> <<[keyword |-> weighted[i][1], asked |-> r.asked,
                             result |-> r.result]>> \o rest.lookups]

\* [kw for kw, weight in weighted_keywords if weight >= 3.0]
priority_keywords(weighted) ==
    LET IsPriority(pair) == pair[2] >= PriorityWeight
        chosen == SelectSeq(weighted, IsPriority)
    IN  [i \in DOMAIN chosen |-> chosen[i][1]]

\* create_gpt_enhanced_text: the new cache, the lookups and the text returned;
\* ' '.join raises TypeError when a part is no str
create_gpt_enhanced_text(text, generator, has_client, c, replies) ==
    LET normalized == normalize_text(text)
        weighted == extract_weighted_keywords(normalized)
        loop == IF generator
                THEN synonym_loop(weighted, 1, c, has_client, replies)
                ELSE [cache |-> c, parts |-> <<>>, lookups |-> <<>>]
        priority == priority_keywords(weighted)
        parts == <<normalized>> \o loop.parts \o priority \o priority
    IN  [cache |-> loop.cache,
         lookups |-> loop.lookups,
         returned |-> IF \E i \in DOMAIN parts : parts[i] = NonStr
                      THEN [kind |-> "raised", text |-> <<>>]
                      ELSE [kind |-> "text", text |-> join_space(parts)]]

\* a preprocessor with or without a generator, the generator with or without
\* a client, its cache empty or holding a list for a keyword
EnhanceInit ==
    /\ FusionIdle
    /\ LoaderIdle
    /\ RoundTripIdle
    /\ EmbedIdle
    /\ StoreIdle
    /\ RelevanceIdle
    /\ AgentIdle
    /\ NormIdle
    /\ KeywordIdle
    /\ IdIdle
    /\ SystemIdle
    /\ has_generator \in BOOLEAN
    /\ syn_client \in (IF has_generator THEN BOOLEAN ELSE {FALSE})
    /\ synonym_cache \in
          (IF syn_client
           THEN {<<>>, memoize_synonyms(<<>>, <<"h", "n">>, "short_list")}
           ELSE {<<>>})
    /\ syn_calls = 0
    /\ last_synonyms = NoSynonymCall
    /\ enh_pc = "ready"
    /\ enh_text = <<>>
    /\ enh_lookups = <<>>
    /\ enhanced_text = NoText

\* the number of lookups create_gpt_enhanced_text makes for a text
lookup_count(text, generator) ==
    IF generator
    THEN Min(TopKeywords, Len(extract_weighted_keywords(normalize_text(text))))
    ELSE 0

\* one call create_gpt_enhanced_text(text); replies[i] is the collaborator's
\* answer to the i-th lookup, should the lookup ask
CreateEnhancedText ==
    /\ enh_pc = "ready"
    /\ \E text \in EnhanceTexts :
        \E replies \in [1..lookup_count(text, has_generator) ->
                           IF syn_client THEN EnhanceReplies ELSE {"fail"}] :
          LET r == create_gpt_enhanced_text(text, has_generator, syn_client,
                                            synonym_cache, replies)
          IN  /\ enh_text' = text
              /\ synonym_cache' = r.cache
              /\ enh_lookups' = r.lookups
              /\ enhanced_text' = r.returned
    /\ enh_pc' = "done"
    /\ UNCHANGED <<syn_client, syn_calls, last_synonyms, has_generator>>
    /\ UNCHANGED <<fusionVars, loaderVars, roundTripVars, embedVars, storeVars,
                   relevanceVars, agentVars, normVars, kwVars, idVars,
                   sysVars>>

EnhanceNext == CreateEnhancedText

SpecEnhance == EnhanceInit /\ [][EnhanceNext]_vars

----------------------------------------------------------------------------
(* Claims about the synonym injection                                        *)

EnhNormalized == normalize_text(enh_text)

EnhKeywords == extract_weighted_keywords(EnhNormalized)

\* the synonyms the claim has the i-th lookup append: the first six of its
\* list, min(floor(weight), 3) times
ClaimedSynonyms(i) ==
    IF i > Len(enh_lookups) THEN <<>>
    ELSE LET list == enh_lookups[i].result
             six == [j \in 1..Min(6, Len(list)) |-> list[j]]
             floor == EnhKeywords[i][2] \div 10
         IN  IF floor >= 3 THEN six \o six \o six
             ELSE IF floor = 2 THEN six \o six
             ELSE IF floor = 1 THEN six
             ELSE <<>>

\* the important keywords the function appends twice after the synonyms
EnhPriority == priority_keywords(EnhKeywords)

IsPrefix(s, t) == Len(s) <= Len(t) /\ SubSeq(t, 1, Len(s)) = s

----------------------------------------------------------------------------
(* rag_system.py: one search_mattresses call on an initialized system, with  *)
(* the embedding manager and the vector store behind it.  The collection     *)
(* holds the documents Docs.                                                 *)

\* the query of the call
SearchQuery == "q"

\* budget filters tried by the search
SearchBudgets == {<<>>, <<0, 800>>}

\* distances the store may report to the search, in hundredths
SearchDistances == {10, 40}

\* the answers of the store to a query for the whole collection: every
\* document once, nearest first
Rankings ==
    {r \in HitLists : Len(r) = Cardinality(Docs)
                      /\ \A i \in DOMAIN r : r[i].distance \in SearchDistances}

\* mutant: a query that raised still yields hits
search_similar_ignores_failure(ranking, n, store_ok) == take(ranking, n)

\* ChromaDBManager.search_similar on the collection whose documents, nearest
\* first for the queried vector, are ranking: the n nearest, or {} (no hits)
\* when the query raises
search_similar(ranking, n, store_ok) ==
    IF store_ok THEN take(ranking, n) ELSE <<>>

\* mutant: every pass asks the store for n_results hits
pass_limit_same_for_all(strategy, n) == n

\* the number of hits a pass asks the store for: n_results * 2 for the
\* enhanced and few-shot passes, n_results for the raw query
pass_limit(strategy, n) == IF strategy = "original" THEN n ELSE n * 2

\* the state after one strategy: embed, query the store, add the hits
\* weighted.  e is the outcome of the embedding call.
SearchPass(strategy, next, e, n, ranking, store_ok) ==
    LET vec == e.result
        rk == IF vec \in DOMAIN store_ranking THEN store_ranking[vec] ELSE ranking
        hits == search_similar(rk, n, store_ok)
    IN  /\ embedding_cache' = e.cache
        /\ store_ranking' =
              IF store_ok
              THEN [v \in (DOMAIN store_ranking) \cup {vec} |->
                        IF v = vec THEN rk ELSE store_ranking[v]]
              ELSE store_ranking
        /\ pass_info' = [pass_info EXCEPT ![strategy] = [vec |-> vec, ok |-> store_ok]]
        /\ store_queries' = Append(store_queries,
                                   [strategy |-> strategy, n_results |-> n,
                                    weight10 |-> Weight10(strategy)])
        /\ model_calls' = model_calls + (IF e.model_invoked THEN 1 ELSE 0)
        /\ pass_hits' = [pass_hits EXCEPT ![strategy] = hits]
        /\ all_results' = add_weighted_results(all_results, hits,
                                               Weight10(strategy), strategy)
        /\ pc' = next

Init ==
    /\ LoaderIdle
    /\ RoundTripIdle
    /\ StoreIdle
    /\ RelevanceIdle
    /\ AgentIdle
    /\ NormIdle
    /\ KeywordIdle
    /\ IdIdle
    /\ SynonymIdle
    /\ SystemReady
    /\ gpt_client \in BOOLEAN
    /\ embedding_model = FirstModel
    /\ embedding_cache = <<>>
    /\ embed_calls = 0
    /\ last_call = NoCall
    /\ first_result = <<>>
    /\ pc = "idle"
    /\ n_results = 1
    /\ budget_filter = <<>>
    /\ all_results = <<>>
    /\ pass_hits = NoHits
    /\ final_results = <<>>

\* search_mattresses(query, n_results, budget_filter) is called
BeginSearch ==
    /\ pc = "idle"
    /\ n_results' \in 1..MaxK
    /\ budget_filter' \in SearchBudgets
    /\ all_results' = <<>>
    /\ pc' = "enhanced"
    /\ UNCHANGED <<pass_hits, final_results>>
    /\ UNCHANGED <<loaderVars, roundTripVars, embedVars, storeVars, relevanceVars, agentVars,
                   normVars, kwVars,
                   idVars,
                   synVars,
                   sysVars>>

\* strategy 1: _search_with_full_enhancement(query, n_results * 2), weight 1.0
SearchEnhanced ==
    /\ pc = "enhanced"
    /\ \E reply \in GptReplies, syn \in SynonymForms, encode_ok \in BOOLEAN,
          ranking \in Rankings, store_ok \in BOOLEAN :
          SearchPass("enhanced", "few_shot",
                     generate_embedding(embedding_cache, SearchQuery, TRUE,
                                        gpt_client, reply, syn, encode_ok),
                     pass_limit("enhanced", n_results), ranking, store_ok)
    /\ UNCHANGED <<n_results, budget_filter, final_results>>
    /\ UNCHANGED <<gpt_client, embedding_model, embed_calls, last_call, first_result>>
    /\ UNCHANGED <<loaderVars, roundTripVars, relevanceVars, agentVars,
                   normVars, kwVars,
                   idVars,
                   synVars,
                   sysVars>>

\* strategy 2: _search_with_few_shot_only(query, n_results * 2), weight 0.8
SearchFewShot ==
    /\ pc = "few_shot"
    /\ \E reply \in GptReplies, syn \in SynonymForms, encode_ok \in BOOLEAN,
          ranking \in Rankings, store_ok \in BOOLEAN :
          LET expanded_query ==
                  generate_few_shot_expansion(SearchQuery, gpt_client, reply).text
          IN  SearchPass("few_shot", "original",
                         generate_embedding(embedding_cache, expanded_query, FALSE,
                                            gpt_client, reply, syn, encode_ok),
                         pass_limit("few_shot", n_results), ranking, store_ok)
    /\ UNCHANGED <<n_results, budget_filter, final_results>>
    /\ UNCHANGED <<gpt_client, embedding_model, embed_calls, last_call, first_result>>
    /\ UNCHANGED <<loaderVars, roundTripVars, relevanceVars, agentVars,
                   normVars, kwVars,
                   idVars,
                   synVars,
                   sysVars>>

\* strategy 3: _search_with_original(query, n_results), weight 0.6
SearchOriginal ==
    /\ pc = "original"
    /\ \E reply \in GptReplies, syn \in SynonymForms, encode_ok \in BOOLEAN,
          ranking \in Rankings, store_ok \in BOOLEAN :
          SearchPass("original", "calculate",
                     generate_embedding(embedding_cache, SearchQuery, FALSE,
                                        gpt_client, reply, syn, encode_ok),
                     pass_limit("original", n_results), ranking, store_ok)
    /\ UNCHANGED <<n_results, budget_filter, final_results>>
    /\ UNCHANGED <<gpt_client, embedding_model, embed_calls, last_call, first_result>>
    /\ UNCHANGED <<loaderVars, roundTripVars, relevanceVars, agentVars,
                   normVars, kwVars,
                   idVars,
                   synVars,
                   sysVars>>

\* _calculate_final_results, and the return of search_mattresses
SearchCalculate ==
    /\ pc = "calculate"
    /\ final_results' = calculate_final_results(all_results, budget_filter, n_results)
    /\ pc' = "done"
    /\ UNCHANGED <<n_results, budget_filter, all_results, pass_hits>>
    /\ UNCHANGED <<loaderVars, roundTripVars, embedVars, storeVars, relevanceVars, agentVars,
                   normVars, kwVars,
                   idVars,
                   synVars,
                   sysVars>>

Next ==
    BeginSearch \/ SearchEnhanced \/ SearchFewShot \/ SearchOriginal \/ SearchCalculate

Spec == Init /\ [][Next]_vars

----------------------------------------------------------------------------
(* Claims about a search without the collaborator                            *)

\* the ids a strategy's store query returned
PassIds(strategy) == {pass_hits[strategy][i].id : i \in DOMAIN pass_hits[strategy]}

\* the strategies whose store query returned the candidate
PassesReturning(doc_id) == {s \in Strategies : doc_id \in PassIds(s)}

\* a search without the collaborator has returned, every embedding was
\* computed and every store query answered
CleanSearchWithoutClient ==
    /\ pc = "done"
    /\ gpt_client = FALSE
    /\ \A s \in Strategies : pass_info[s].ok /\ pass_info[s].vec # ZeroVec

\* C7 (as stated): without the collaborator every returned result lists
\* 'original' in strategies_used.
C7_EveryResultHasOriginal ==
    CleanSearchWithoutClient =>
        \A i \in DOMAIN final_results :
            "original" \in final_results[i].strategies_used

\* C7: without the collaborator the search returns a ranked list of at most
\* n_results results; when both embeddings are computed the few-shot pass
\* searches with the same vector as the raw-query pass, and when both store
\* queries answer the raw-query pass returns the first n_results of the
\* few-shot hits; every result lists exactly the strategies whose query returned it,
\* and so lists 'original' exactly when the raw-query pass returned it.
C7_OriginalIffReturnedByRawPass ==
    (pc = "done" /\ gpt_client = FALSE) =>
        /\ Len(final_results) <= n_results
        /\ \A i \in DOMAIN final_results : \A j \in DOMAIN final_results :
              i < j => final_results[i].similarity_score
                          >= final_results[j].similarity_score
        /\ (pass_info["few_shot"].vec # ZeroVec /\ pass_info["original"].vec # ZeroVec)
              => pass_info["few_shot"].vec = pass_info["original"].vec
        /\ (/\ pass_info["few_shot"].vec = pass_info["original"].vec
            /\ pass_info["few_shot"].ok /\ pass_info["original"].ok)
              => pass_hits["original"] = take(pass_hits["few_shot"], n_results)
        /\ \A i \in DOMAIN final_results :
              /\ final_results[i].strategies_used
                    = PassesReturning(final_results[i].id)
              /\ final_results[i].strategies_used # {}
              /\ "original" \in final_results[i].strategies_used
                    <=> final_results[i].id \in PassIds("original")

\* a clean search without the collaborator returns a candidate that the
\* raw-query pass did not return, although that pass returned another one
C7_Witness ==
    /\ CleanSearchWithoutClient
    /\ PassIds("original") # {}
    /\ \E i \in DOMAIN final_results :
          /\ "original" \notin final_results[i].strategies_used
          /\ "few_shot" \in final_results[i].strategies_used

----------------------------------------------------------------------------
(* Claims about failures during a search                                     *)

\* the candidates fused from the hits the three passes returned
FusedFromPasses ==
    add_weighted_results(
        add_weighted_results(
            add_weighted_results(<<>>, pass_hits["enhanced"], Weight10("enhanced"),
                                 "enhanced"),
            pass_hits["few_shot"], Weight10("few_shot"), "few_shot"),
        pass_hits["original"], Weight10("original"), "original")

FailedPasses == {s \in Strategies : ~pass_info[s].ok}

\* C13: the search returns whatever fails: a pass whose store query failed
\* contributes no hits, the hits of the other passes are fused and ranked as
\* usual, a failed embedding (zero vector) or a failed collaborator request
\* leaves the pass running, and with every store query failed the result is
\* the empty list.
C13_FailuresAbsorbed ==
    pc = "done" =>
        /\ \A s \in FailedPasses : pass_hits[s] = <<>>
        /\ all_results = FusedFromPasses
        /\ final_results
              = calculate_final_results(FusedFromPasses, budget_filter, n_results)
        /\ \A s \in Strategies : \A i \in DOMAIN pass_hits[s] :
              budget_filter = <<>> /\ Len(all_results) <= n_results
                 => \E j \in DOMAIN final_results :
                       final_results[j].id = pass_hits[s][i].id
        /\ FailedPasses = Strategies => final_results = <<>>

\* the store query of the first pass failed and the embedding of the second
\* failed, and the search still returned the candidates of the other passes
C13_Witness ==
    /\ pc = "done"
    /\ FailedPasses = {"enhanced"}
    /\ pass_info["few_shot"].vec = ZeroVec
    /\ pass_hits["few_shot"] # <<>>
    /\ pass_hits["original"] # <<>>
    /\ final_results # <<>>
    /\ \A i \in DOMAIN final_results :
          final_results[i].strategies_used = {"few_shot", "original"}

----------------------------------------------------------------------------
(* Claims about the budget filter and the score formula                      *)

\* the ranking of all fused candidates without a budget filter
FullRanking == calculate_final_results(all_results, <<>>, Len(all_results))

\* the stored price of the result is inside the budget filter of the call
InRange(r) == passes_budget(Price10(r.id), budget_filter)

\* C14: the list returned with a budget filter is the first n_results entries
\* of the unfiltered full ranking restricted to the candidates whose price is
\* in range, each with the score it has without the filter.
C14_FilterKeepsScores ==
    Done => final_results = take(SelectSeq(FullRanking, InRange), n_results)

\* a budget filter removed the top candidate of the full ranking and the
\* other candidate was returned
C14_Witness ==
    /\ Done
    /\ budget_filter # <<>>
    /\ Len(FullRanking) = 2
    /\ ~InRange(FullRanking[1])
    /\ FullRanking[1].similarity_score > FullRanking[2].similarity_score
    /\ final_results = <<FullRanking[2]>>

----------------------------------------------------------------------------
(* Claims about the price normalisation                                      *)

NormDone == norm_pc = "done"

RequiredFields == {"name", "brand", "type"}

FieldOf(rec, field) ==
    CASE field = "name" -> rec.name
      [] field = "brand" -> rec.brand
      [] field = "type" -> rec.type

Absent(value) == value = Missing \/ value = ""

\* the normalised record has the placeholder for each absent required field
\* and the record's own value for every other field
KeepsOwnFields(raw, out) ==
    /\ \A f \in RequiredFields :
          FieldOf(out, f) = IF Absent(FieldOf(raw, f)) THEN Placeholder(f)
                            ELSE FieldOf(raw, f)
    /\ out.x = raw.x

\* C15: one record comes out per input record, in the same order, whatever
\* the input holds; a record with name, brand or type absent or empty gets
\* the placeholder for that field only and keeps its other fields.
C15_PlaceholderForMissingFieldOnly ==
    NormDone =>
        /\ Len(normalized_mattresses) = Len(raw_mattresses)
        /\ \A i \in DOMAIN raw_mattresses :
              (/\ raw_mattresses[i].is_dict
               /\ \E f \in RequiredFields : Absent(FieldOf(raw_mattresses[i], f)))
                 => KeepsOwnFields(raw_mattresses[i], normalized_mattresses[i])

\* the price is a string with a character that is neither digit nor dot,
\* and what is left of it without those characters reads as a number
PriceWithSuffix(p) ==
    /\ p.kind = "str"
    /\ SelectSeq(p.chars, IsDigitOrDot) # p.chars
    /\ is_float_literal(SelectSeq(p.chars, IsDigitOrDot))

\* C16: a record whose price is a string with non-numeric characters gets the
\* threshold rule applied to the number left after stripping them, and keeps
\* its own name, brand and other fields.
C16_StringPriceKeepsRecord ==
    NormDone =>
        \A i \in DOMAIN raw_mattresses :
            (raw_mattresses[i].is_dict /\ PriceWithSuffix(raw_mattresses[i].price))
              => /\ normalized_mattresses[i].price
                       = threshold_rule(float_tenths(
                             SelectSeq(raw_mattresses[i].price.chars, IsDigitOrDot)))
                 /\ KeepsOwnFields(raw_mattresses[i], normalized_mattresses[i])

\* the input cannot be read as a number: None, a list, or a string that
\* holds no number after stripping
Unreadable(p) ==
    \/ p.kind \in {"none", "list"}
    \/ p.kind = "str" /\ ~is_float_literal(SelectSeq(p.chars, IsDigitOrDot))

PriceGiven(i) == original_price_of(raw_mattresses[i])

PassScore(strategy, doc_id, weight10) ==
    IF \E i \in DOMAIN pass_hits[strategy] : pass_hits[strategy][i].id = doc_id
    THEN LET i == CHOOSE i \in DOMAIN pass_hits[strategy] :
                      pass_hits[strategy][i].id = doc_id
         IN  (100 - pass_hits[strategy][i].distance) * weight10
    ELSE 0

\* min(avg + bonusA + bonusB + multi, 1.0) of the candidate, in 1/6000
ClaimedScore(doc_id) ==
    LET passCount == Cardinality(PassesReturning(doc_id))
        sum == PassScore("enhanced", doc_id, 10) + PassScore("few_shot", doc_id, 8)
               + PassScore("original", doc_id, 6)
        avg == (sum * 6) \div passCount
        bonusA == IF doc_id \in PassIds("enhanced") THEN 900 ELSE 0
        bonusB == IF doc_id \in PassIds("few_shot") THEN 600 ELSE 0
        multi == Min(300 * passCount, 900)
    IN  Min(avg + bonusA + bonusB + multi, 6000)

\* C18: the final score of every returned candidate is
\* min(avg + bonusA + bonusB + multi, 1.0): avg the mean of its per-pass
\* weighted scores, bonusA 0.15 iff pass 'enhanced' returned it, bonusB 0.10
\* iff pass 'few_shot' did, multi min(0.05 * passCount, 0.15).
C18_FinalScoreFormula ==
    Done => \A i \in DOMAIN final_results :
                final_results[i].similarity_score = ClaimedScore(final_results[i].id)

\* two candidates are returned with scores below 1.0, one found by all three
\* passes and one by the few-shot pass alone
C18_Witness ==
    /\ Done
    /\ Len(final_results) = 2
    /\ PassesReturning(final_results[1].id) = Strategies
    /\ PassesReturning(final_results[2].id) = {"few_shot"}
    /\ final_results[1].similarity_score < 6000
    /\ final_results[2].similarity_score > 0

----------------------------------------------------------------------------
(* Claims about the queries of a search                                      *)

\* C19: a search issues exactly three store queries, for the enhanced, the
\* few-shot and the raw-query pass in that order, asking for 2k, 2k and k
\* hits and fusing them with weights 1.0, 0.8 and 0.6, and invokes the
\* embedding model at most three times.
C19_ThreeQueriesInOrder ==
    /\ model_calls <= 3
    /\ pc = "done" =>
          store_queries =
              <<[strategy |-> "enhanced", n_results |-> 2 * n_results, weight10 |-> 10],
                [strategy |-> "few_shot", n_results |-> 2 * n_results, weight10 |-> 8],
                [strategy |-> "original", n_results |-> n_results, weight10 |-> 6]>>

\* a search has issued its three queries with two model invocations only, the
\* third embedding coming from the cache, although one store query failed
C19_Witness ==
    /\ pc = "done"
    /\ Len(store_queries) = 3
    /\ model_calls = 2
    /\ ~pass_info["few_shot"].ok
    /\ n_results = 2

----------------------------------------------------------------------------
(* Claims about the candidate entries during fusion                          *)

\* sum(scores.values()) of a candidate entry
SumOfScores(entry) ==
    (IF "enhanced" \in DOMAIN entry.scores THEN entry.scores["enhanced"] ELSE 0)
  + (IF "few_shot" \in DOMAIN entry.scores THEN entry.scores["few_shot"] ELSE 0)
  + (IF "original" \in DOMAIN entry.scores THEN entry.scores["original"] ELSE 0)

\* C28: at every point of the fusion each candidate entry has strategy_count
\* equal to the number of keys of its scores and total_score equal to the sum
\* of its scores, the keys are the passes that returned the candidate, and a
\* returned result lists exactly those passes as strategies_used.
C28_EntryAggregates ==
    /\ \A i \in DOMAIN all_results :
          LET entry == all_results[i]
          IN  /\ entry.strategy_count = Cardinality(DOMAIN entry.scores)
              /\ entry.total_score = SumOfScores(entry)
              /\ DOMAIN entry.scores = PassesReturning(entry.doc_id)
    /\ \A i \in DOMAIN final_results :
          final_results[i].strategies_used = PassesReturning(final_results[i].id)

\* after the three passes a candidate was returned by two of them with
\* different weighted scores, and it is among the results of the search
C28_Witness ==
    /\ pc = "done"
    /\ \E i \in DOMAIN all_results :
          /\ all_results[i].strategy_count = 2
          /\ DOMAIN all_results[i].scores = {"enhanced", "original"}
          /\ all_results[i].scores["enhanced"] # all_results[i].scores["original"]
          /\ \E j \in DOMAIN final_results :
                final_results[j].id = all_results[i].doc_id

----------------------------------------------------------------------------
(* Claims about the memoization of check_relevance                           *)

\* the cleaned query of the call a step makes
NextClean == py_strip(py_lower(last_check'.query), Whitespace)

\* C30: every call leaves its result in the cache under the lower-cased,
\* trimmed query, no later call changes or removes an entry, and a call whose
\* cleaned query is in the cache returns the stored result, whatever it was,
\* without asking the collaborator: so the collaborator is asked at most once
\* per cleaned query and later calls return the first call's result.
C30_MemoizedByCleanQuery ==
    [][ relevance_calls' = relevance_calls + 1 =>
          /\ NextClean \in DOMAIN relevance_cache'
          /\ relevance_cache'[NextClean] = last_check'.result
          /\ \A k \in DOMAIN relevance_cache :
                k \in DOMAIN relevance_cache' /\ relevance_cache'[k] = relevance_cache[k]
          /\ NextClean \in DOMAIN relevance_cache =>
                /\ ~last_check'.gpt_invoked
                /\ last_check'.result = relevance_cache[NextClean] ]_vars

\* a second call returned from the cache the rejection that the first call,
\* whose request to the collaborator failed, had stored
C30_Witness ==
    /\ relevance_calls = 2
    /\ last_check.cached
    /\ ~last_check.gpt_invoked
    /\ last_check.result.method = "gpt_check"
    /\ last_check.result.reason = "gpt_failed"
    /\ ~last_check.result.is_relevant

----------------------------------------------------------------------------
(* Claims about the lookup by id                                             *)

\* the item of the returned list that carries the id looked up
LookedUpItems == {i \in DOMAIN rag_result : rag_result[i].id = lookup_id}

\* C26: for an id that preprocess_for_rag assigned, get_mattress_by_id returns
\* the record that was given that id, also when the id has a collision suffix.
C26_LookupReturnsOwnRecord ==
    lookup_result # NoLookup =>
        \A i \in LookedUpItems :
            /\ lookup_result.kind = "found"
            /\ lookup_result.src = rag_result[i].src

----------------------------------------------------------------------------
(* rag_system.py: FewShotEnhancedEmbeddingManager.generate_embeddings_batch, *)
(* EnhancedMattressRAGSystem.initialize_with_data and the guard of           *)
(* search_mattresses, with the ChromaDBManager behind them                   *)

MaxSystemCalls == 2

MaxBatchTexts == 3

MaxBatchSize == 2

\* batch_size: int = 16, the value initialize_with_data calls with
DefaultBatchSize == 16

\* sample documents: texts in normal form without table keywords, which
\* normalize_text and create_gpt_enhanced_text without synonyms return as given
BatchTextPool == <<"d1", "d2", "d3", "d4", "d5">>

\* the lists of texts given to generate_embeddings_batch
BatchTexts ==
    {SubSeq(BatchTextPool, 1, Min(n, Len(BatchTextPool))) : n \in {0, MaxBatchTexts}}

\* what may happen to one text in the preprocessing loop or in the fallback:
\* the collaborator's requests fail, the expansion request returns a longer
\* text, or the step raises
BatchOutcomes == {"fail", "expand", "raise"}

\* the text the collaborator expands a text to
expansion_of(text) == text \o " e1"

\* the texts a vector for text may have been encoded from: the text itself,
\* or the text expanded in the preprocessing loop
TextsFrom(text) == {text, expansion_of(text)}

\* the row of model.encode(batch_texts) for one text
encoded(text) == [text |-> text, form |-> "encoded"]

\* the preprocessing loop: processed_texts, one per text
processed_texts(texts, use_enhancement, client, pre) ==
    [i \in DOMAIN texts |->
        IF use_enhancement /\ client /\ pre[i] = "expand"
        THEN expansion_of(texts[i])
        ELSE texts[i]]

\* batch_texts = processed_texts[i:i + batch_size], i counted from 1
batch_slice(processed, i, batch_size) ==
    SubSeq(processed, i, Min(i + batch_size - 1, Len(processed)))

\* the fallback loop from the k-th text of the batch on; offset is the number
\* of texts before the batch
RECURSIVE fallback_from(_, _, _, _, _, _, _)
fallback_from(cache, batch_texts, k, offset, use_enhancement, client, fb) ==
    IF k > Len(batch_texts) THEN [cache |-> cache, embeddings |-> <<>>]
    ELSE LET o == fb[offset + k]
             e == generate_embedding(cache, batch_texts[k], use_enhancement, client,
                                     "fail", "enhanced", o # "raise")
             rest == fallback_from(e.cache, batch_texts, k + 1, offset,
                                   use_enhancement, client, fb)
         IN  [cache |-> rest.cache, embeddings |-> <<e.result>> \o rest.embeddings]

\* mutant: the fallback embeds the first text of the failed batch only
fallback_embeddings_first_only(cache, batch_texts, offset, use_enhancement, client, fb) ==
    fallback_from(cache, take(batch_texts, 1), 1, offset, use_enhancement, client, fb)

\* except: one generate_embedding call per text of the batch, appended in order
fallback_embeddings(cache, batch_texts, offset, use_enhancement, client, fb) ==
    fallback_from(cache, batch_texts, 1, offset, use_enhancement, client, fb)

\* the batch loop from index i (counted from 1) on; batch_ok[b] tells whether
\* model.encode returns for the b-th batch
RECURSIVE batches_from(_, _, _, _, _, _, _, _)
batches_from(cache, processed, i, batch_size, use_enhancement, client, batch_ok, fb) ==
    IF i > Len(processed) THEN [cache |-> cache, embeddings |-> <<>>]
    ELSE LET batch_texts == batch_slice(processed, i, batch_size)
             b == ((i - 1) \div batch_size) + 1
             this == IF batch_ok[b]
                     THEN [cache |-> cache,
                           embeddings |-> [k \in DOMAIN batch_texts |->
                                              encoded(batch_texts[k])]]
                     ELSE fallback_embeddings(cache, batch_texts, i - 1,
                                              use_enhancement, client, fb)
             rest == batches_from(this.cache, processed, i + batch_size, batch_size,
                                  use_enhancement, client, batch_ok, fb)
         IN  [cache |-> rest.cache, embeddings |-> this.embeddings \o rest.embeddings]

\* generate_embeddings_batch: the new cache and the list returned, or raised
\* when the preprocessing loop raises (it stands outside the try); flag is
\* use_enhancement
generate_embeddings_batch(cache, texts, batch_size, flag, client, pre, batch_ok, fb) ==
    IF texts = <<>>
    THEN [cache |-> cache, raised |-> FALSE, embeddings |-> <<>>]
    ELSE IF flag /\ client /\ \E i \in DOMAIN texts : pre[i] = "raise"
    THEN [cache |-> cache, raised |-> TRUE, embeddings |-> <<>>]
    ELSE LET r == batches_from(cache, processed_texts(texts, flag, client, pre),
                               1, batch_size, flag, client, batch_ok, fb)
         IN  [cache |-> r.cache, raised |-> FALSE, embeddings |-> r.embeddings]

\* the outcomes of the preprocessing loop for n texts; without the
\* collaborator or without enhancement nothing is requested
PreOutcomes(n, use_enhancement, client) ==
    [1..n -> IF use_enhancement /\ client THEN BatchOutcomes ELSE {"fail"}]

\* whether model.encode returns, for each of the batches of n texts
BatchResults(n, batch_size) == [1..((n + batch_size - 1) \div batch_size) -> BOOLEAN]

\* the outcomes of the fallback calls, drawn for the texts of failed batches:
\* the call returns a vector (its expansion request failing) or raises inside
FallbackOutcomes(n, batch_size, batch_ok) ==
    {fb \in [1..n -> {"fail", "raise"}] :
        \A i \in 1..n : batch_ok[((i - 1) \div batch_size) + 1] => fb[i] = "fail"}

\* rag_data of data_loader.preprocess_for_rag(): items with distinct ids
SystemCatalogs ==
    {<<>>, <<"mattress_a">>, <<"mattress_a", "mattress_b">>,
     <<"mattress_b", "mattress_a">>}

\* item['search_text'] of the item with the id
search_text(doc_id) == IF doc_id = "mattress_a" THEN "d1" ELSE "d2"

\* collection.add(documents, embeddings, metadatas, ids): the rows, the i-th of
\* each list together; lists of different lengths are refused
add_documents(rows, documents, embeddings, ids, add_ok) ==
    IF add_ok /\ Len(embeddings) = Len(documents) /\ Len(ids) = Len(documents)
    THEN [ok |-> TRUE,
          rows |-> rows \o [i \in DOMAIN documents |->
                               [id |-> ids[i], document |-> documents[i],
                                embedding |-> embeddings[i]]]]
    ELSE [ok |-> FALSE, rows |-> rows]

\* the answers of the store to a query on the rows: every row once
SystemRankings(rows) ==
    {r \in HitLists :
        /\ Len(r) = Len(rows)
        /\ \A i \in DOMAIN rows : \E j \in DOMAIN r : r[j].id = rows[i].id
        /\ \A i \in DOMAIN r : r[i].distance \in SearchDistances}

SystemInit ==
    /\ FusionIdle
    /\ LoaderIdle
    /\ RoundTripIdle
    /\ StoreIdle
    /\ RelevanceIdle
    /\ AgentIdle
    /\ NormIdle
    /\ KeywordIdle
    /\ IdIdle
    /\ SynonymIdle
    /\ gpt_client \in BOOLEAN
    /\ embedding_model = FirstModel
    /\ embedding_cache = <<>>
    /\ embed_calls = 0
    /\ last_call = NoCall
    /\ first_result = <<>>
    /\ is_initialized = FALSE
    /\ collection_handle = FALSE
    /\ collection_rows = <<>>
    /\ system_calls = 0
    /\ last_init = NoInit
    /\ system_search = NoSystemSearch
    /\ batch_call = NoBatchCall

\* initialize_with_data(data_loader, reset_db): what the call returns and
\* leaves behind.  create_ok: get_or_create_collection returns; rag: rag_data of
\* the loader; add_ok: collection.add returns.
initialize_with_data(reset_db, create_ok, rag, pre, batch_ok, fb, add_ok) ==
    LET rows0 == IF reset_db THEN <<>> ELSE collection_rows
        documents == [i \in DOMAIN rag |-> search_text(rag[i])]
        batch == generate_embeddings_batch(embedding_cache, documents, DefaultBatchSize,
                                           TRUE, gpt_client, pre, batch_ok, fb)
        added == add_documents(rows0, documents, batch.embeddings, rag, add_ok)
        failed(handle, rows, cache) ==
            [returned |-> FALSE, initialized |-> is_initialized, handle |-> handle,
             rows |-> rows, cache |-> cache, documents |-> <<>>, embeddings |-> <<>>]
    IN  IF ~create_ok THEN failed(collection_handle, rows0, embedding_cache)
        ELSE IF Len(rows0) > 0 /\ ~reset_db
        THEN [returned |-> TRUE, initialized |-> TRUE, handle |-> TRUE,
              rows |-> rows0, cache |-> embedding_cache,
              documents |-> <<>>, embeddings |-> <<>>]
        ELSE IF rag = <<>> THEN failed(TRUE, rows0, embedding_cache)
        ELSE IF batch.raised THEN failed(TRUE, rows0, embedding_cache)
        ELSE IF added.ok
        THEN [returned |-> TRUE, initialized |-> TRUE, handle |-> TRUE,
              rows |-> added.rows, cache |-> batch.cache,
              documents |-> documents, embeddings |-> batch.embeddings]
        ELSE failed(TRUE, rows0, batch.cache)

\* one call initialize_with_data(data_loader, reset_db)
InitializeWithData ==
    /\ system_calls < MaxSystemCalls
    /\ \E reset_db \in BOOLEAN, create_ok \in BOOLEAN, rag \in SystemCatalogs,
          add_ok \in BOOLEAN :
          \* what is drawn for a step the call does not reach makes no difference
          /\ ~create_ok => (rag = <<>> /\ add_ok)
          /\ \E pre \in PreOutcomes(Len(rag), TRUE, gpt_client),
                batch_ok \in BatchResults(Len(rag), DefaultBatchSize) :
             \E fb \in FallbackOutcomes(Len(rag), DefaultBatchSize, batch_ok) :
             LET r == initialize_with_data(reset_db, create_ok, rag, pre, batch_ok,
                                           fb, add_ok)
             IN  /\ is_initialized' = r.initialized
                 /\ collection_handle' = r.handle
                 /\ collection_rows' = r.rows
                 /\ embedding_cache' = r.cache
                 /\ last_init' = [made |-> TRUE, reset_db |-> reset_db,
                                  returned |-> r.returned, documents |-> r.documents,
                                  ids |-> IF r.documents = <<>> THEN <<>> ELSE rag,
                                  embeddings |-> r.embeddings]
    /\ system_calls' = system_calls + 1
    /\ UNCHANGED <<system_search, batch_call>>
    /\ UNCHANGED <<gpt_client, embedding_model, embed_calls, last_call, first_result>>
    /\ UNCHANGED <<fusionVars, loaderVars, roundTripVars, storeVars, relevanceVars,
                   agentVars, normVars, kwVars, idVars, synVars>>

\* the three passes and the fusion of a search on the initialized system
search_passes(cache, client, n, budget, reply, encode_ok, ranking, store_ok) ==
    LET rk == IF collection_handle THEN ranking ELSE <<>>
        e1 == generate_embedding(cache, SearchQuery, TRUE, client, reply,
                                 "enhanced", encode_ok)
        r1 == add_weighted_results(<<>>,
                                   search_similar(rk, pass_limit("enhanced", n), store_ok),
                                   Weight10("enhanced"), "enhanced")
        e2 == generate_embedding(e1.cache,
                                 generate_few_shot_expansion(SearchQuery, client, reply).text,
                                 FALSE, client, reply, "enhanced", encode_ok)
        r2 == add_weighted_results(r1,
                                   search_similar(rk, pass_limit("few_shot", n), store_ok),
                                   Weight10("few_shot"), "few_shot")
        e3 == generate_embedding(e2.cache, SearchQuery, FALSE, client, reply,
                                 "enhanced", encode_ok)
        r3 == add_weighted_results(r2,
                                   search_similar(rk, pass_limit("original", n), store_ok),
                                   Weight10("original"), "original")
        invoked(e) == IF e.model_invoked THEN 1 ELSE 0
    IN  [cache |-> e3.cache,
         model_calls |-> invoked(e1) + invoked(e2) + invoked(e3),
         store_queries |-> IF collection_handle THEN 3 ELSE 0,
         results |-> calculate_final_results(r3, budget, n)]

\* one call search_mattresses(query, n_results, budget_filter) on the system
SystemSearch ==
    /\ system_calls < MaxSystemCalls
    /\ \E n \in 1..MaxK, budget \in SearchBudgets, reply \in GptReplies,
          encode_ok \in BOOLEAN, store_ok \in BOOLEAN,
          ranking \in SystemRankings(collection_rows) :
          LET s == search_passes(embedding_cache, gpt_client, n, budget, reply,
                                 encode_ok, ranking, store_ok)
              init_failed == last_init.made /\ ~last_init.returned
          IN  IF ~is_initialized
              THEN /\ system_search' = [made |-> TRUE, init_failed |-> init_failed,
                                        model_calls |-> 0, store_queries |-> 0,
                                        results |-> <<>>]
                   /\ UNCHANGED embedding_cache
              ELSE /\ system_search' = [made |-> TRUE, init_failed |-> init_failed,
                                        model_calls |-> s.model_calls,
                                        store_queries |-> s.store_queries,
                                        results |-> s.results]
                   /\ embedding_cache' = s.cache
    /\ system_calls' = system_calls + 1
    /\ UNCHANGED <<is_initialized, collection_handle, collection_rows, last_init,
                   batch_call>>
    /\ UNCHANGED <<gpt_client, embedding_model, embed_calls, last_call, first_result>>
    /\ UNCHANGED <<fusionVars, loaderVars, roundTripVars, storeVars, relevanceVars,
                   agentVars, normVars, kwVars, idVars, synVars>>

\* one call generate_embeddings_batch(texts, batch_size, use_enhancement); a
\* behaviour holds at most one such call
CallGenerateEmbeddingsBatch ==
    /\ system_calls < MaxSystemCalls
    /\ ~batch_call.made
    /\ \E texts \in BatchTexts, batch_size \in 1..MaxBatchSize,
          use_enhancement \in BOOLEAN :
          \E pre \in PreOutcomes(Len(texts), use_enhancement, gpt_client),
             batch_ok \in BatchResults(Len(texts), batch_size) :
          \E fb \in FallbackOutcomes(Len(texts), batch_size, batch_ok) :
             LET r == generate_embeddings_batch(embedding_cache, texts, batch_size,
                                                use_enhancement, gpt_client, pre,
                                                batch_ok, fb)
             IN  /\ embedding_cache' = r.cache
                 /\ batch_call' = [made |-> TRUE, texts |-> texts,
                                   batch_size |-> batch_size, raised |-> r.raised,
                                   fallback |-> ~r.raised
                                                /\ \E b \in DOMAIN batch_ok : ~batch_ok[b],
                                   embeddings |-> r.embeddings]
    /\ system_calls' = system_calls + 1
    /\ UNCHANGED <<is_initialized, collection_handle, collection_rows, last_init,
                   system_search>>
    /\ UNCHANGED <<gpt_client, embedding_model, embed_calls, last_call, first_result>>
    /\ UNCHANGED <<fusionVars, loaderVars, roundTripVars, storeVars, relevanceVars,
                   agentVars, normVars, kwVars, idVars, synVars>>

SystemNext == InitializeWithData \/ SystemSearch \/ CallGenerateEmbeddingsBatch

SpecSystem == SystemInit /\ [][SystemNext]_vars

----------------------------------------------------------------------------
(* Claims about the system *)

\* C27: is_initialized is true only if the most recent initialize_with_data
\* call returned True, and a search made after a call that returned False
\* returns an empty list without touching the embedding model or the store.
C27_InitializedOnlyAfterSuccess ==
    /\ is_initialized => (last_init.made /\ last_init.returned)
    /\ (system_search.made /\ system_search.init_failed) =>
          /\ system_search.results = <<>>
          /\ system_search.model_calls = 0
          /\ system_search.store_queries = 0

\* the vector stands for the text: it was encoded from the text or from an
\* expansion of it, or it is the zero vector of a failed fallback
VectorOf(vec, text) == vec = ZeroVec \/ vec.text \in TextsFrom(text)

\* C29: a generate_embeddings_batch call that returns gives one vector per
\* text, the i-th for the i-th text, also when batches fell back to single
\* calls; and every row initialize_with_data stored holds the i-th document
\* with the i-th id and the i-th embedding.
C29_OneVectorPerTextInOrder ==
    /\ (batch_call.made /\ ~batch_call.raised) =>
          /\ Len(batch_call.embeddings) = Len(batch_call.texts)
          /\ \A i \in DOMAIN batch_call.texts :
                VectorOf(batch_call.embeddings[i], batch_call.texts[i])
    /\ (last_init.made /\ last_init.documents # <<>>) =>
          /\ Len(last_init.embeddings) = Len(last_init.documents)
          /\ Len(collection_rows) = Len(last_init.documents)
          /\ \A i \in DOMAIN collection_rows :
                /\ collection_rows[i].id = last_init.ids[i]
                /\ collection_rows[i].document = last_init.documents[i]
                /\ collection_rows[i].document = search_text(collection_rows[i].id)
                /\ collection_rows[i].embedding = last_init.embeddings[i]
                /\ VectorOf(collection_rows[i].embedding, collection_rows[i].document)

\* three texts in batches of two: the first batch was encoded, the second fell
\* back to a single call that failed, and the third vector is the zero vector
C29_Witness ==
    /\ batch_call.made /\ batch_call.fallback
    /\ Len(batch_call.texts) = 3
    /\ batch_call.batch_size = 2
    /\ batch_call.embeddings[1] = encoded("d1")
    /\ batch_call.embeddings[3] = ZeroVec
    /\ last_init.made /\ last_init.returned /\ Len(collection_rows) = 2
    /\ collection_rows[1].id = "mattress_b"

====
